---------------------------- MODULE Spec2Model ----------------------------
(***************************************************************************)
(* Orchestration-and-progress layer of the chat application: the engine    *)
(* connector (lib/temporal/client.ts, lib/temporal/chat-workflow.ts), the  *)
(* signal-or-start trigger, the workflow dispatcher, the guest rate limit  *)
(* of the chat route and the progress translator.  The durable-execution   *)
(* engine is an external collaborator: it is modelled by the outcomes its  *)
(* client calls can have (success, not-found, already-started,             *)
(* connectivity error).                                                    *)
(***************************************************************************)
EXTENDS Integers, Sequences, FiniteSets, TLC

(***************************************************************************)
(* Bounds of the model.                                                    *)
(***************************************************************************)
MaxCalls == 4        \* getTemporalClient calls begun by the connector callers
MaxFaults == 2       \* engine calls that fail with a connectivity error
MaxRuns == 2         \* executions the engine starts under one workflow id
MaxTriggers == 2     \* triggerRootOrchestrator calls begun
MaxClock == 1        \* ticks of the clock read by Date.now()
MaxDispatches == 2   \* triggerWorkflow calls begun
MaxPosts == 4        \* chat POSTs begun in the conversation
MaxPolls == 3        \* progress polls begun
MaxTerminates == 1   \* terminateChatSession calls begun
MaxSessionPosts == 2 \* chat POSTs begun in a conversation that may be terminated

Callers == {"k1", "k2", "k3"}
Triggers == {"t1", "t2"}
Dispatchers == {"d1", "d2"}
Requests == {"r1", "r2"}
Pollers == {"p1", "p2"}

Null == 0
Undefined == "<undefined>"

VARIABLES
    temporalClient,  \* the module-level cached Client (Null or a handle id)
    connects,        \* Connection.connect calls that completed
    conn,            \* per connector caller: its position in getTemporalClient
    calls,           \* getTemporalClient calls begun by the connector callers
    handed,          \* history: every handle getTemporalClient has returned
    executions,      \* the engine: workflow id -> execution record
    faults,          \* engine calls that failed with a connectivity error
    now,             \* the clock read by Date.now()
    trig,            \* per trigger: its position in triggerRootOrchestrator
    trigCalls,       \* triggerRootOrchestrator calls begun
    disp,            \* per dispatcher: its position in triggerWorkflow
    dispCalls,       \* triggerWorkflow calls begun
    post,            \* per chat request: its position in the chat route's POST
    posts,           \* chat POSTs begun in the conversation
    cookies,         \* the guest's cookie jar: guest-message-count, or absent
    repliesCounted,  \* whether the session execution counts assistant messages
    outcomes,        \* history: what each chat POST answered
    term,            \* the caller of terminateChatSession: its position, its result
    shown,           \* the last response of the progress tool or GET handler
    poll,            \* per poller: its position in getWorkflowStatus
    polls,           \* progress polls begun
    seen,            \* workflow id -> the progress last reported for it
    work,            \* workflow id -> the steps its worker has finished
    view,            \* the progress component: its props, its state, its interval
    net,             \* the component's fetches in flight, per request slot
    tool,            \* the trigger tool: its position, the extraction, its result
    inspected        \* the last step inspection: the history read and the result

vars == <<temporalClient, connects, conn, calls, handed, executions, faults, now,
          trig, trigCalls, disp, dispCalls, post, posts, cookies, repliesCounted,
          outcomes, term, shown, poll, polls, seen, work, view, net, tool, inspected>>

clientVars == <<temporalClient, connects>>
connVars == <<conn, calls, handed>>
engineVars == <<executions, faults>>
trigVars == <<trig, trigCalls>>
dispVars == <<disp, dispCalls>>
chatVars == <<post, posts, cookies, repliesCounted, outcomes, term>>
progVars == <<shown, poll, polls, seen, work>>
frontVars == <<view, net, tool, inspected>>

(***************************************************************************)
(* EngineConnector: getTemporalClient.                                     *)
(*   if (!temporalClient) { connection = await Connection.connect(...);    *)
(*                          temporalClient = new Client(...) }             *)
(*   return temporalClient                                                 *)
(* The await suspends the caller, so other callers run between the test    *)
(* of temporalClient and its assignment.                                   *)
(***************************************************************************)
\* new Client({connection, namespace}): every completed connect builds a
\* fresh client object; handles are numbered by the connect that built them.
NewClient == connects + 1

\* the cached handle is served without a connection attempt
clientCached == temporalClient # Null

\* the continuation after a resolved Connection.connect:
\* temporalClient = new Client(...), unconditionally
connectResolved ==
    /\ connects' = connects + 1
    /\ temporalClient' = NewClient

ConnIdle == [pc |-> "idle", ret |-> Null, seen |-> {}, attempted |-> FALSE]

\* a caller enters getTemporalClient: cached handle, or suspend at the connect.
\* seen records the handles earlier calls had returned when this call began.
getTemporalClient(k) ==
    /\ conn[k].pc = "idle"
    /\ calls < MaxCalls
    /\ calls' = calls + 1
    /\ IF clientCached
          THEN /\ conn' = [conn EXCEPT ![k] = [pc |-> "returned", ret |-> temporalClient,
                                               seen |-> handed, attempted |-> FALSE]]
               /\ handed' = handed \cup {temporalClient}
          ELSE /\ conn' = [conn EXCEPT ![k] = [pc |-> "connecting", ret |-> Null,
                                               seen |-> handed, attempted |-> TRUE]]
               /\ handed' = handed
    /\ UNCHANGED <<frontVars, progVars, clientVars, engineVars, now, trigVars, dispVars, chatVars>>

\* Connection.connect resolves: the caller builds and caches a client
ConnectResolves(k) ==
    /\ conn[k].pc = "connecting"
    /\ connectResolved
    /\ conn' = [conn EXCEPT ![k].pc = "returned", ![k].ret = NewClient]
    /\ handed' = handed \cup {NewClient}
    /\ UNCHANGED <<frontVars, progVars, calls, engineVars, now, trigVars, dispVars, chatVars>>

\* the rejected connect is cached as if it were a client
ConnectRejects_caches(k) ==
    /\ conn[k].pc = "connecting"
    /\ faults < MaxFaults
    /\ faults' = faults + 1
    /\ temporalClient' = NewClient
    /\ conn' = [conn EXCEPT ![k].pc = "raised"]
    /\ UNCHANGED <<frontVars, progVars, connects, calls, handed, executions, now, trigVars, dispVars, chatVars>>

\* Connection.connect rejects: the caller raises, nothing is cached
ConnectRejects(k) ==
    /\ conn[k].pc = "connecting"
    /\ faults < MaxFaults
    /\ faults' = faults + 1
    /\ conn' = [conn EXCEPT ![k].pc = "raised"]
    /\ UNCHANGED <<frontVars, progVars, clientVars, calls, handed, executions, now, trigVars, dispVars, chatVars>>

\* the caller's request ends; a later request of the same process calls again
CallerAgain(k) ==
    /\ conn[k].pc \in {"returned", "raised"}
    /\ calls < MaxCalls
    /\ conn' = [conn EXCEPT ![k] = ConnIdle]
    /\ UNCHANGED <<frontVars, progVars, clientVars, calls, handed, engineVars, now, trigVars, dispVars, chatVars>>

InitConn ==
    /\ temporalClient = Null
    /\ connects = 0
    /\ conn = [k \in Callers |-> ConnIdle]
    /\ calls = 0
    /\ handed = {}

NextConn ==
    \E k \in Callers :
        \/ getTemporalClient(k)
        \/ ConnectResolves(k)
        \/ ConnectRejects(k)
        \/ CallerAgain(k)

(***************************************************************************)
(* The engine, as its client calls see it.  An execution record holds the  *)
(* engine status name, the number of runs started under the id, the        *)
(* workflow type and task queue of the last start, its seed argument and   *)
(* the signals delivered to the current run.                               *)
(***************************************************************************)
ClosedStatuses == {"COMPLETED", "FAILED", "CANCELLED", "TERMINATED", "TIMED_OUT"}

Known(id) == id \in DOMAIN executions
Running(id) == Known(id) /\ executions[id].status = "RUNNING"

Put(id, rec) ==
    [i \in DOMAIN executions \cup {id} |-> IF i = id THEN rec ELSE executions[i]]

\* client.workflow.start succeeds unless an execution with this id is running
\* (the engine deduplicates by workflow id: WorkflowExecutionAlreadyStarted)
startAccepted(id) == ~Running(id)

Started(id, name, queue, seed) ==
    Put(id, [status |-> "RUNNING",
             runs |-> IF Known(id) THEN executions[id].runs + 1 ELSE 1,
             name |-> name, queue |-> queue, seed |-> seed, state |-> seed,
             signals |-> << >>])

\* handle.signal is delivered to a running execution only (else not-found)
signalAccepted(id) == Running(id)

Signalled(id, sig) ==
    [executions EXCEPT ![id].signals = Append(@, sig)]

\* an engine call fails with a connectivity error
EngineFault ==
    /\ faults < MaxFaults
    /\ faults' = faults + 1
    /\ UNCHANGED executions

\* the current run of an execution closes on the engine's side
EngineCloses(id, st) ==
    /\ Running(id)
    /\ executions[id].runs < MaxRuns
    /\ executions' = [executions EXCEPT ![id].status = st]
    /\ UNCHANGED <<frontVars, progVars, clientVars, connVars, faults, now, trigVars, dispVars, chatVars>>

InitEngine ==
    /\ executions = [i \in {} |-> 0]
    /\ faults = 0
    /\ now = 0

\* time passes between two reads of Date.now()
Tick ==
    /\ now < MaxClock
    /\ now' = now + 1
    /\ UNCHANGED <<frontVars, progVars, clientVars, connVars, engineVars, trigVars, dispVars, chatVars>>

(***************************************************************************)
(* WorkflowDispatcher, signal-or-start: triggerRootOrchestrator.           *)
(***************************************************************************)
\* JavaScript a || b on strings: the empty string and undefined are falsy
Falsy(x) == x \in {Undefined, ""}
OrElse(a, b) == IF Falsy(a) THEN b ELSE a

\* workflowId || `chat-orchestrator-${event.chatId || Date.now()}`
\* (an id is the sequence of the fragments the template concatenates)
orchestratorWorkflowId(event, workflowId) ==
    IF Falsy(workflowId)
       THEN <<"chat-orchestrator-", OrElse(event.chatId, ToString(now))>>
       ELSE <<workflowId>>

TrigIdle == [pc |-> "idle", event |-> Undefined, workflowId |-> Undefined,
             arg |-> Undefined, call |-> 0, runId |-> Undefined, started |-> FALSE,
             signalFailure |-> Undefined, error |-> Undefined]

TriggerEvents ==
    [eventType : {"incident"}, source : {"chat"}, message : {"m1"},
     chatId : {"c1", ""}]

WorkflowIdArgs == {Undefined, "wf-x"}

othersInFlight(t) ==
    \E u \in Triggers \ {t} : trig[u].pc \notin {"idle", "returned", "raised"}

\* const client = await getTemporalClient(): cached, or suspend at the connect
triggerRootOrchestrator(t, event, workflowId) ==
    /\ trig[t].pc \in {"idle", "returned", "raised"}
    /\ trigCalls < MaxTriggers
    /\ trigCalls' = trigCalls + 1
    /\ trig' = [trig EXCEPT ![t] =
                  [TrigIdle EXCEPT !.pc = IF clientCached THEN "signal" ELSE "connect",
                                   !.event = event, !.arg = workflowId,
                                   !.call = trigCalls + 1,
                                   !.workflowId = IF clientCached
                                        THEN orchestratorWorkflowId(event, workflowId)
                                        ELSE Undefined]]
    /\ UNCHANGED <<frontVars, progVars, clientVars, connVars, engineVars, now, dispVars, chatVars>>

TrigConnectResolves(t) ==
    /\ trig[t].pc = "connect"
    /\ connectResolved
    /\ trig' = [trig EXCEPT ![t].pc = "signal",
                            ![t].workflowId = orchestratorWorkflowId(trig[t].event, trig[t].arg)]
    /\ UNCHANGED <<frontVars, progVars, connVars, engineVars, now, trigCalls, dispVars, chatVars>>

TrigConnectRejects(t) ==
    /\ trig[t].pc = "connect"
    /\ EngineFault
    /\ trig' = [trig EXCEPT ![t].pc = "raised", ![t].error = "connectivity"]
    /\ UNCHANGED <<frontVars, progVars, clientVars, connVars, now, trigCalls, dispVars, chatVars>>

TriggerSignal(t) == [name |-> "trigger", payload |-> trig[t].event, call |-> trig[t].call]

\* try { await handle.signal('trigger', event); return {workflowId, runId: 'existing'} }
TrigSignalDelivered(t) ==
    /\ trig[t].pc = "signal"
    /\ signalAccepted(trig[t].workflowId)
    /\ executions' = Signalled(trig[t].workflowId, TriggerSignal(t))
    /\ trig' = [trig EXCEPT ![t].pc = "returned", ![t].runId = "existing"]
    /\ UNCHANGED <<frontVars, progVars, clientVars, connVars, faults, now, trigCalls, dispVars, chatVars>>

\* catch (error): whatever the signal's failure was, go on to start
TrigSignalNotFound(t) ==
    /\ trig[t].pc = "signal"
    /\ ~signalAccepted(trig[t].workflowId)
    /\ trig' = [trig EXCEPT ![t].pc = "start", ![t].signalFailure = "not-found"]
    /\ UNCHANGED <<frontVars, progVars, clientVars, connVars, engineVars, now, trigCalls, dispVars, chatVars>>

TrigSignalFault(t) ==
    /\ trig[t].pc = "signal"
    /\ EngineFault
    /\ trig' = [trig EXCEPT ![t].pc = "start", ![t].signalFailure = "connectivity"]
    /\ UNCHANGED <<frontVars, progVars, clientVars, connVars, now, trigCalls, dispVars, chatVars>>

\* handle = await client.workflow.start('RootOrchestratorWorkflow',
\*            {args: [{}], taskQueue: 'root_orchestrator-queue', workflowId})
TrigStartAccepted(t) ==
    /\ trig[t].pc = "start"
    /\ startAccepted(trig[t].workflowId)
    /\ executions' = Started(trig[t].workflowId, "RootOrchestratorWorkflow",
                             "root_orchestrator-queue", "{}")
    /\ trig' = [trig EXCEPT ![t].pc = "signal2", ![t].started = TRUE]
    /\ UNCHANGED <<frontVars, progVars, clientVars, connVars, faults, now, trigCalls, dispVars, chatVars>>

\* the start is refused (already started): the error leaves the catch block
TrigStartRefused(t) ==
    /\ trig[t].pc = "start"
    /\ ~startAccepted(trig[t].workflowId)
    /\ trig' = [trig EXCEPT ![t].pc = "raised", ![t].started = TRUE,
                            ![t].error = "already-started"]
    /\ UNCHANGED <<frontVars, progVars, clientVars, connVars, engineVars, now, trigCalls, dispVars, chatVars>>

TrigStartFault(t) ==
    /\ trig[t].pc = "start"
    /\ EngineFault
    /\ trig' = [trig EXCEPT ![t].pc = "raised", ![t].started = TRUE,
                            ![t].error = "connectivity"]
    /\ UNCHANGED <<frontVars, progVars, clientVars, connVars, now, trigCalls, dispVars, chatVars>>

\* await handle.signal('trigger', event); return {workflowId, runId: handle.workflowId}
TrigSecondSignalDelivered(t) ==
    /\ trig[t].pc = "signal2"
    /\ signalAccepted(trig[t].workflowId)
    /\ executions' = Signalled(trig[t].workflowId, TriggerSignal(t))
    /\ trig' = [trig EXCEPT ![t].pc = "returned", ![t].runId = trig[t].workflowId]
    /\ UNCHANGED <<frontVars, progVars, clientVars, connVars, faults, now, trigCalls, dispVars, chatVars>>

TrigSecondSignalNotFound(t) ==
    /\ trig[t].pc = "signal2"
    /\ ~signalAccepted(trig[t].workflowId)
    /\ trig' = [trig EXCEPT ![t].pc = "raised", ![t].error = "not-found"]
    /\ UNCHANGED <<frontVars, progVars, clientVars, connVars, engineVars, now, trigCalls, dispVars, chatVars>>

TrigSecondSignalFault(t) ==
    /\ trig[t].pc = "signal2"
    /\ EngineFault
    /\ trig' = [trig EXCEPT ![t].pc = "raised", ![t].error = "connectivity"]
    /\ UNCHANGED <<frontVars, progVars, clientVars, connVars, now, trigCalls, dispVars, chatVars>>

(***************************************************************************)
(* WorkflowDispatcher: determineWorkflowType and triggerWorkflow.          *)
(* A string is the sequence of its fragments, so that s.includes(word) is  *)
(* a search through s; << >> is the absent or empty string (both falsy).   *)
(***************************************************************************)
NoStr == << >>
Includes(s, word) == \E i \in DOMAIN s : s[i] = word

INCIDENT == <<"incident">>
DOCUMENT_PROCESSING == <<"document", "_processing">>
DATA_PROCESSING == <<"data", "_processing">>

\* event.eventType.includes(...) on an event without eventType throws a
\* TypeError: the function has no result
TypeError == <<"<TypeError>">>

\* an optional string field that is not there
Absent == <<Undefined>>

determineWorkflowType(event) ==
    IF event.workflowType # NoStr THEN event.workflowType
    ELSE IF event.eventType = Absent THEN TypeError
    ELSE IF \/ Includes(event.eventType, "incident")
            \/ Includes(event.eventType, "alert")
            \/ Includes(event.eventType, "error") THEN INCIDENT
    ELSE IF \/ Includes(event.eventType, "ObjectCreated")
            \/ Includes(event.eventType, "BlobCreated")
            \/ Includes(event.eventType, "document")
            \/ event.source = <<"s3">>
            \/ event.source = <<"azure-blob">> THEN DOCUMENT_PROCESSING
    ELSE INCIDENT

\* workflowId || `${workflowType}-${event.chatId || Date.now()}`
actualWorkflowId(event, workflowId) ==
    IF workflowId # NoStr THEN workflowId
    ELSE determineWorkflowType(event) \o <<"-">>
            \o (IF event.chatId # NoStr THEN event.chatId ELSE <<ToString(now)>>)

\* a switch with a case for data_processing as well
SupportedTypes_withDataProcessing == {INCIDENT, DOCUMENT_PROCESSING, DATA_PROCESSING}

\* the switch over workflowType: the workflow started and its task queue
SupportedTypes == {INCIDENT, DOCUMENT_PROCESSING}

workflowName(type) ==
    IF type = INCIDENT THEN "IncidentWorkflow" ELSE "DocumentProcessingWorkflow"

\* one queue for every type
taskQueue_shared(type) == "incident_workflow-queue"

taskQueue(type) ==
    IF type = INCIDENT THEN "incident_workflow-queue" ELSE "document_processing-queue"

\* args: [{...}] of the start, by type
startArgs(type, event) ==
    IF type = INCIDENT
       THEN [kind |-> "incident", source |-> event.source, event_type |-> event.eventType,
             chatId |-> event.chatId]
       ELSE [kind |-> "document", source |-> event.source, event_type |-> event.eventType,
             chatId |-> event.chatId]

\* starts counts the client.workflow.start calls of the current call
DispIdle == [pc |-> "idle", event |-> NoStr, arg |-> NoStr, call |-> 0,
             workflowType |-> NoStr, workflowId |-> NoStr, runId |-> NoStr,
             error |-> "none", starts |-> 0]

Event(eventType, source, chatId, workflowType) ==
    [eventType |-> eventType, source |-> source, chatId |-> chatId,
     workflowType |-> workflowType]

DispatchEvents ==
    { Event(<<"incident">>, <<"chat">>, <<"c1">>, NoStr),
      Event(<<"document", "_upload">>, <<"chat">>, <<"c1">>, NoStr),
      Event(<<"unknown">>, <<"s3">>, <<"c1">>, NoStr),
      Event(<<"unknown">>, <<"chat">>, NoStr, NoStr),
      Event(<<"incident">>, <<"chat">>, <<"c1">>, DATA_PROCESSING) }

DispatchIdArgs == {NoStr, <<"wf-x">>}

\* what follows `const client = await getTemporalClient()`: the type and the
\* id are computed, and an unsupported type throws before any engine call
dispatchPrepared(d, event, workflowId) ==
    LET type == determineWorkflowType(event) IN
    IF type = TypeError
       THEN [disp[d] EXCEPT !.pc = "raised", !.error = "type-error",
                            !.workflowType = NoStr, !.workflowId = NoStr]
       ELSE [disp[d] EXCEPT
                !.workflowType = type,
                !.workflowId = actualWorkflowId(event, workflowId),
                !.pc = IF type \in SupportedTypes THEN "start" ELSE "raised",
                !.error = IF type \in SupportedTypes THEN "none" ELSE "unsupported"]

triggerWorkflow(d, event, workflowId) ==
    /\ disp[d].pc \in {"idle", "returned", "raised"}
    /\ dispCalls < MaxDispatches
    /\ dispCalls' = dispCalls + 1
    /\ LET entered == [DispIdle EXCEPT !.pc = "connect", !.event = event,
                                       !.arg = workflowId, !.call = dispCalls + 1]
       IN disp' = [disp EXCEPT ![d] =
                     IF clientCached
                        THEN [dispatchPrepared(d, event, workflowId) EXCEPT
                                 !.event = event, !.arg = workflowId,
                                 !.call = dispCalls + 1, !.runId = NoStr,
                                 !.starts = 0]
                        ELSE entered]
    /\ UNCHANGED <<frontVars, progVars, clientVars, connVars, engineVars, now, trigVars, chatVars>>

DispConnectResolves(d) ==
    /\ disp[d].pc = "connect"
    /\ connectResolved
    /\ disp' = [disp EXCEPT ![d] = dispatchPrepared(d, disp[d].event, disp[d].arg)]
    /\ UNCHANGED <<frontVars, progVars, connVars, engineVars, now, trigVars, dispCalls, chatVars>>

DispConnectRejects(d) ==
    /\ disp[d].pc = "connect"
    /\ EngineFault
    /\ disp' = [disp EXCEPT ![d].pc = "raised", ![d].error = "connectivity"]
    /\ UNCHANGED <<frontVars, progVars, clientVars, connVars, now, trigVars, dispCalls, chatVars>>

\* handle = await client.workflow.start(name, {args, taskQueue, workflowId});
\* return {workflowId: actualWorkflowId, runId: handle.workflowId, workflowType}
DispStartAccepted(d) ==
    /\ disp[d].pc = "start"
    /\ startAccepted(disp[d].workflowId)
    /\ executions' = Started(disp[d].workflowId, workflowName(disp[d].workflowType),
                             taskQueue(disp[d].workflowType),
                             startArgs(disp[d].workflowType, disp[d].event))
    /\ disp' = [disp EXCEPT ![d].pc = "returned", ![d].runId = disp[d].workflowId,
                            ![d].starts = @ + 1]
    /\ UNCHANGED <<frontVars, progVars, clientVars, connVars, faults, now, trigVars, dispCalls, chatVars>>

\* catch (error) { console.error(...); throw error }
DispStartRefused(d) ==
    /\ disp[d].pc = "start"
    /\ ~startAccepted(disp[d].workflowId)
    /\ disp' = [disp EXCEPT ![d].pc = "raised", ![d].error = "already-started",
                            ![d].starts = @ + 1]
    /\ UNCHANGED <<frontVars, progVars, clientVars, connVars, engineVars, now, trigVars, dispCalls, chatVars>>

DispStartFault(d) ==
    /\ disp[d].pc = "start"
    /\ EngineFault
    /\ disp' = [disp EXCEPT ![d].pc = "raised", ![d].error = "connectivity",
                            ![d].starts = @ + 1]
    /\ UNCHANGED <<frontVars, progVars, clientVars, connVars, now, trigVars, dispCalls, chatVars>>

InitDisp ==
    /\ disp = [d \in Dispatchers |-> DispIdle]
    /\ dispCalls = 0

NextDisp ==
    \/ \E d \in Dispatchers, event \in DispatchEvents, workflowId \in DispatchIdArgs :
          triggerWorkflow(d, event, workflowId)
    \/ \E d \in Dispatchers :
          \/ DispConnectResolves(d)
          \/ DispConnectRejects(d)
          \/ DispStartAccepted(d)
          \/ DispStartRefused(d)
          \/ DispStartFault(d)
    \/ \E id \in DOMAIN executions : EngineCloses(id, "COMPLETED")
    \/ Tick

(***************************************************************************)
(* SessionOrchestrator and the chat route's POST for a guest.              *)
(* In this part temporalClient is the cached client of chat-workflow.ts.   *)
(***************************************************************************)
\* entitlementsByUserType.guest.maxMessagesPerDay
maxMessagesPerDay == 3

\* `chat-session-${sessionId}`
sessionWorkflowId(sessionId) == <<"chat-session-", sessionId>>

ChatId == "chat1"
SessionId == sessionWorkflowId(ChatId)

\* args of client.workflow.start('ChatSessionWorkflow', ...)
sessionSeed == [messageCount |-> 0, isActive |-> TRUE]

\* the session execution handles receiveMessage: its messageCount counts the
\* message (an assistant message only if the execution counts replies)
receiveMessage(role) ==
    [executions EXCEPT ![SessionId].signals = Append(@, role),
                       ![SessionId].state.messageCount =
                            IF role = "user" \/ repliesCounted THEN @ + 1 ELSE @]

\* no guest-message-count cookie in the jar
NoCookie == -1

\* parseInt(cookieStore.get('guest-message-count')?.value || '0', 10)
cookieCount == IF cookies = NoCookie THEN 0 ELSE cookies

\* forwarded: the request's user message has reached the session execution;
\* sent: the roles of the sendMessageToChatSession calls the request has made
PostIdle == [pc |-> "idle", n |-> 0, userType |-> "guest", signedIn |-> FALSE,
             chatWorkflowStarted |-> FALSE, messageCount |-> 0, failures |-> {},
             forwarded |-> FALSE, sent |-> << >>]

\* the catch blocks around the session calls: the failure is logged, the
\* POST goes on at its next step
swallowed_raised(r, call, next) ==
    [post EXCEPT ![r].pc = "error", ![r].failures = @ \cup {call}]

swallowed(r, call, next) ==
    [post EXCEPT ![r].pc = next, ![r].failures = @ \cup {call}]

\* after startChatSessionWorkflow: updateChatSessionUser if (session?.user);
\* then the history query for a guest, the database for the others
afterUpdate(r) == IF post[r].userType = "guest" THEN "history" ELSE "send"
afterStart(r) == IF post[r].signedIn THEN "update" ELSE afterUpdate(r)

\* POST begins: a caller with no session and no guest cookies gets the guest
\* cookies, guest-message-count=0
ChatPost(r, userType, signedIn) ==
    /\ post[r].pc \in {"idle", "done"}
    /\ posts < MaxPosts
    /\ posts' = posts + 1
    /\ cookies' = IF ~signedIn /\ cookies = NoCookie THEN 0 ELSE cookies
    /\ post' = [post EXCEPT ![r] =
                  [PostIdle EXCEPT !.n = posts + 1,
                                   !.userType = userType, !.signedIn = signedIn,
                                   !.pc = IF clientCached THEN "describe" ELSE "connect"]]
    /\ UNCHANGED <<frontVars, progVars, term, clientVars, connVars, engineVars, now, trigVars, dispVars,
                   repliesCounted, outcomes>>

\* startChatSessionWorkflow: const client = await getTemporalClient()
SessionConnectResolves(r) ==
    /\ post[r].pc = "connect"
    /\ connectResolved
    /\ post' = [post EXCEPT ![r].pc = "describe"]
    /\ UNCHANGED <<frontVars, progVars, term, connVars, engineVars, now, trigVars, dispVars,
                   posts, cookies, repliesCounted, outcomes>>

\* the connect rejects: startChatSessionWorkflow raises, the POST catches it
\* and goes on with chatWorkflowStarted = false
SessionConnectRejects(r) ==
    /\ post[r].pc = "connect"
    /\ EngineFault
    /\ post' = swallowed(r, "connect", "limit")
    /\ UNCHANGED <<frontVars, progVars, term, clientVars, connVars, now, trigVars, dispVars,
                   posts, cookies, repliesCounted, outcomes>>

\* description = await handle.describe(); RUNNING: the execution is reused
SessionDescribedRunning(r) ==
    /\ post[r].pc = "describe"
    /\ Running(SessionId)
    /\ post' = [post EXCEPT ![r].pc = afterStart(r), ![r].chatWorkflowStarted = TRUE]
    /\ UNCHANGED <<frontVars, progVars, term, clientVars, connVars, engineVars, now, trigVars, dispVars,
                   posts, cookies, repliesCounted, outcomes>>

\* describe finds no execution (caught) or one that is not RUNNING
SessionDescribedNotRunning(r) ==
    /\ post[r].pc = "describe"
    /\ ~Running(SessionId)
    /\ post' = [post EXCEPT ![r].pc = "start"]
    /\ UNCHANGED <<frontVars, progVars, term, clientVars, connVars, engineVars, now, trigVars, dispVars,
                   posts, cookies, repliesCounted, outcomes>>

\* describe fails with a connectivity error (caught): start below
SessionDescribeFault(r) ==
    /\ post[r].pc = "describe"
    /\ EngineFault
    /\ post' = swallowed(r, "describe", "start")
    /\ UNCHANGED <<frontVars, progVars, term, clientVars, connVars, now, trigVars, dispVars,
                   posts, cookies, repliesCounted, outcomes>>

\* client.workflow.start('ChatSessionWorkflow', {args: [{messageCount: 0, ...}]})
SessionStartAccepted(r) ==
    /\ post[r].pc = "start"
    /\ startAccepted(SessionId)
    /\ executions' = Started(SessionId, "ChatSessionWorkflow", "chat-session-queue",
                             sessionSeed)
    /\ post' = [post EXCEPT ![r].pc = afterStart(r), ![r].chatWorkflowStarted = TRUE]
    /\ repliesCounted' \in BOOLEAN
    /\ UNCHANGED <<frontVars, progVars, term, clientVars, connVars, faults, now, trigVars, dispVars,
                   posts, cookies, outcomes>>

\* the start is refused: startChatSessionWorkflow raises, caught by the POST
SessionStartRefused(r) ==
    /\ post[r].pc = "start"
    /\ ~startAccepted(SessionId)
    /\ post' = swallowed(r, "start", "limit")
    /\ UNCHANGED <<frontVars, progVars, term, clientVars, connVars, engineVars, now, trigVars, dispVars,
                   posts, cookies, repliesCounted, outcomes>>

SessionStartFault(r) ==
    /\ post[r].pc = "start"
    /\ EngineFault
    /\ post' = swallowed(r, "start", "limit")
    /\ UNCHANGED <<frontVars, progVars, term, clientVars, connVars, now, trigVars, dispVars,
                   posts, cookies, repliesCounted, outcomes>>

\* if (session?.user) await updateChatSessionUser(id, userId, workflowUserType)
UpdateUserDelivered(r) ==
    /\ post[r].pc = "update"
    /\ signalAccepted(SessionId)
    /\ executions' = Signalled(SessionId, "updateUser")
    /\ post' = [post EXCEPT ![r].pc = afterUpdate(r)]
    /\ UNCHANGED <<frontVars, progVars, term, clientVars, connVars, faults, now, trigVars, dispVars,
                   posts, cookies, repliesCounted, outcomes>>

\* updateChatSessionUser catches the signal's failure and returns false
UpdateUserNotFound(r) ==
    /\ post[r].pc = "update"
    /\ ~signalAccepted(SessionId)
    /\ post' = swallowed(r, "update", afterUpdate(r))
    /\ UNCHANGED <<frontVars, progVars, term, clientVars, connVars, engineVars, now, trigVars,
                   dispVars, posts, cookies, repliesCounted, outcomes>>

UpdateUserFault(r) ==
    /\ post[r].pc = "update"
    /\ EngineFault
    /\ post' = swallowed(r, "update", afterUpdate(r))
    /\ UNCHANGED <<frontVars, progVars, term, clientVars, connVars, now, trigVars, dispVars,
                   posts, cookies, repliesCounted, outcomes>>

\* a guest with a session execution: getChatSessionHistory(id, 50)
HistoryAnswered(r) ==
    /\ post[r].pc = "history"
    /\ Known(SessionId)
    /\ post' = [post EXCEPT ![r].pc = "send"]
    /\ UNCHANGED <<frontVars, progVars, term, clientVars, connVars, engineVars, now, trigVars,
                   dispVars, posts, cookies, repliesCounted, outcomes>>

\* getChatSessionHistory catches the query's failure and returns []
HistoryFault(r) ==
    /\ post[r].pc = "history"
    /\ EngineFault
    /\ post' = swallowed(r, "history", "send")
    /\ UNCHANGED <<frontVars, progVars, term, clientVars, connVars, now, trigVars, dispVars,
                   posts, cookies, repliesCounted, outcomes>>

\* if (chatWorkflowStarted) await sendMessageToChatSession(id, {role: 'user', ...})
SendUserMessageDelivered(r) ==
    /\ post[r].pc = "send"
    /\ signalAccepted(SessionId)
    /\ executions' = receiveMessage("user")
    /\ post' = [post EXCEPT ![r].pc = "limit", ![r].forwarded = TRUE,
                            ![r].sent = Append(@, "user")]
    /\ UNCHANGED <<frontVars, progVars, term, clientVars, connVars, faults, now, trigVars, dispVars,
                   posts, cookies, repliesCounted, outcomes>>

\* sendMessageToChatSession catches the signal's failure: {success: false}
SendUserMessageNotFound(r) ==
    /\ post[r].pc = "send"
    /\ ~signalAccepted(SessionId)
    /\ post' = [swallowed(r, "send", "limit") EXCEPT ![r].sent = Append(@, "user")]
    /\ UNCHANGED <<frontVars, progVars, term, clientVars, connVars, engineVars, now, trigVars, dispVars,
                   posts, cookies, repliesCounted, outcomes>>

SendUserMessageFault(r) ==
    /\ post[r].pc = "send"
    /\ EngineFault
    /\ post' = [swallowed(r, "send", "limit") EXCEPT ![r].sent = Append(@, "user")]
    /\ UNCHANGED <<frontVars, progVars, term, clientVars, connVars, now, trigVars, dispVars,
                   posts, cookies, repliesCounted, outcomes>>

\* the rate-limit decision on a count: 429 rate_limited, or the cookie is set
\* to count + 1 and the turn goes on
rateLimited(messageCount) == messageCount >= maxMessagesPerDay

RateLimit(r, messageCount, via) ==
    /\ post[r].userType = "guest"
    /\ post' = [post EXCEPT ![r].pc = IF rateLimited(messageCount) THEN "done" ELSE "stream",
                            ![r].messageCount = messageCount,
                            ![r].failures = IF via = "queryFailed"
                                               THEN @ \cup {"status"} ELSE @]
    /\ outcomes' = outcomes \cup
          {IF rateLimited(messageCount)
              THEN [n |-> post[r].n, status |-> 429, error |-> "rate_limited",
                    limit |-> maxMessagesPerDay, current |-> messageCount,
                    compared |-> messageCount, via |-> via, cookie |-> cookieCount]
              ELSE [n |-> post[r].n, status |-> 200, error |-> "none",
                    limit |-> maxMessagesPerDay, current |-> messageCount,
                    compared |-> messageCount, via |-> via, cookie |-> cookieCount]}
    /\ cookies' = IF rateLimited(messageCount) THEN cookies ELSE messageCount + 1

\* sessionStatus = await getChatSessionStatus(id);
\* messageCount = sessionStatus?.messageCount || 0
RateLimitFromSession(r) ==
    /\ post[r].pc = "limit"
    /\ post[r].chatWorkflowStarted
    /\ Known(SessionId)
    /\ RateLimit(r, executions[SessionId].state.messageCount, "session")
    /\ UNCHANGED <<frontVars, progVars, term, clientVars, connVars, engineVars, now, trigVars, dispVars,
                   posts, repliesCounted>>

\* getChatSessionStatus catches the query's failure and returns null: the
\* count is null?.messageCount || 0
sessionStatusUnavailableCount == 0

RateLimitSessionQueryFault(r) ==
    /\ post[r].pc = "limit"
    /\ post[r].chatWorkflowStarted
    /\ EngineFault
    /\ RateLimit(r, sessionStatusUnavailableCount, "queryFailed")
    /\ UNCHANGED <<frontVars, progVars, term, clientVars, connVars, now, trigVars, dispVars,
                   posts, repliesCounted>>

\* chatWorkflowStarted is false: the cookie counter
RateLimitFromCookie(r) ==
    /\ post[r].pc = "limit"
    /\ ~post[r].chatWorkflowStarted
    /\ RateLimit(r, cookieCount, "cookie")
    /\ UNCHANGED <<frontVars, progVars, term, clientVars, connVars, engineVars, now, trigVars, dispVars,
                   posts, repliesCounted>>

\* if (userType === 'guest') is false: no rate limit, the turn goes on
NoRateLimit(r) ==
    /\ post[r].pc = "limit"
    /\ post[r].userType # "guest"
    /\ post' = [post EXCEPT ![r].pc = "stream"]
    /\ outcomes' = outcomes \cup
          {[n |-> post[r].n, status |-> 200, error |-> "none",
            limit |-> maxMessagesPerDay, current |-> 0, compared |-> 0,
            via |-> "none", cookie |-> cookieCount]}
    /\ UNCHANGED <<frontVars, progVars, term, clientVars, connVars, engineVars, now, trigVars,
                   dispVars, posts, cookies, repliesCounted>>

\* the reply is sent to every session, started or not
replySignalled_always(r) == TRUE

\* onFinish: if (chatWorkflowStarted)
replySignalled(r) == post[r].chatWorkflowStarted

\* onFinish: if (chatWorkflowStarted) sendMessageToChatSession(id, {role: 'assistant'})
ReplyDelivered(r) ==
    /\ post[r].pc = "stream"
    /\ replySignalled(r)
    /\ signalAccepted(SessionId)
    /\ executions' = receiveMessage("assistant")
    /\ post' = [post EXCEPT ![r].pc = "done", ![r].sent = Append(@, "assistant")]
    /\ UNCHANGED <<frontVars, progVars, term, clientVars, connVars, faults, now, trigVars, dispVars,
                   posts, cookies, repliesCounted, outcomes>>

ReplyNotFound(r) ==
    /\ post[r].pc = "stream"
    /\ replySignalled(r)
    /\ ~signalAccepted(SessionId)
    /\ post' = [swallowed(r, "reply", "done") EXCEPT ![r].sent = Append(@, "assistant")]
    /\ UNCHANGED <<frontVars, progVars, term, clientVars, connVars, engineVars, now, trigVars, dispVars,
                   posts, cookies, repliesCounted, outcomes>>

ReplyFault(r) ==
    /\ post[r].pc = "stream"
    /\ replySignalled(r)
    /\ EngineFault
    /\ post' = [swallowed(r, "reply", "done") EXCEPT ![r].sent = Append(@, "assistant")]
    /\ UNCHANGED <<frontVars, progVars, term, clientVars, connVars, now, trigVars, dispVars,
                   posts, cookies, repliesCounted, outcomes>>

ReplyWithoutSession(r) ==
    /\ post[r].pc = "stream"
    /\ ~replySignalled(r)
    /\ post' = [post EXCEPT ![r].pc = "done"]
    /\ UNCHANGED <<frontVars, progVars, term, clientVars, connVars, engineVars, now, trigVars, dispVars,
                   posts, cookies, repliesCounted, outcomes>>

\* terminateChatSession: const client = await getTemporalClient()
TermIdle == [pc |-> "idle", calls |-> 0, result |-> "none", succeeded |-> FALSE]

terminateChatSession ==
    /\ term.pc = "idle"
    /\ term.calls < MaxTerminates
    /\ term' = [term EXCEPT !.pc = IF clientCached THEN "terminate" ELSE "connect",
                            !.calls = @ + 1, !.result = "none"]
    /\ UNCHANGED <<frontVars, progVars, clientVars, connVars, engineVars, now, trigVars, dispVars,
                   post, posts, cookies, repliesCounted, outcomes>>

TerminateConnectResolves ==
    /\ term.pc = "connect"
    /\ connectResolved
    /\ term' = [term EXCEPT !.pc = "terminate"]
    /\ UNCHANGED <<frontVars, progVars, connVars, engineVars, now, trigVars, dispVars,
                   post, posts, cookies, repliesCounted, outcomes>>

\* the connect rejects outside the try: terminateChatSession raises
TerminateConnectRejects ==
    /\ term.pc = "connect"
    /\ EngineFault
    /\ term' = [term EXCEPT !.pc = "idle", !.result = "raised"]
    /\ UNCHANGED <<frontVars, progVars, clientVars, connVars, now, trigVars, dispVars,
                   post, posts, cookies, repliesCounted, outcomes>>

\* await handle.terminate(reason); return true
Terminated ==
    /\ term.pc = "terminate"
    /\ Running(SessionId)
    /\ executions' = [executions EXCEPT ![SessionId].status = "TERMINATED"]
    /\ term' = [term EXCEPT !.pc = "idle", !.result = "true", !.succeeded = TRUE]
    /\ UNCHANGED <<frontVars, progVars, clientVars, connVars, faults, now, trigVars, dispVars,
                   post, posts, cookies, repliesCounted, outcomes>>

\* terminate fails (no running execution): caught, return false
TerminateNotFound ==
    /\ term.pc = "terminate"
    /\ ~Running(SessionId)
    /\ term' = [term EXCEPT !.pc = "idle", !.result = "false"]
    /\ UNCHANGED <<frontVars, progVars, clientVars, connVars, engineVars, now, trigVars, dispVars,
                   post, posts, cookies, repliesCounted, outcomes>>

TerminateFault ==
    /\ term.pc = "terminate"
    /\ EngineFault
    /\ term' = [term EXCEPT !.pc = "idle", !.result = "false"]
    /\ UNCHANGED <<frontVars, progVars, clientVars, connVars, now, trigVars, dispVars,
                   post, posts, cookies, repliesCounted, outcomes>>

InitChat ==
    /\ term = TermIdle
    /\ post = [r \in Requests |-> PostIdle]
    /\ posts = 0
    /\ cookies = NoCookie
    /\ repliesCounted = FALSE
    /\ outcomes = {}

\* the steps of a POST after its entry
PostStep(r) ==
    \/ SessionConnectResolves(r)
    \/ SessionConnectRejects(r)
    \/ SessionDescribedRunning(r)
    \/ SessionDescribedNotRunning(r)
    \/ SessionDescribeFault(r)
    \/ SessionStartAccepted(r)
    \/ SessionStartRefused(r)
    \/ SessionStartFault(r)
    \/ UpdateUserDelivered(r)
    \/ UpdateUserNotFound(r)
    \/ UpdateUserFault(r)
    \/ HistoryAnswered(r)
    \/ HistoryFault(r)
    \/ SendUserMessageDelivered(r)
    \/ SendUserMessageNotFound(r)
    \/ SendUserMessageFault(r)
    \/ RateLimitFromSession(r)
    \/ RateLimitSessionQueryFault(r)
    \/ RateLimitFromCookie(r)
    \/ NoRateLimit(r)
    \/ ReplyDelivered(r)
    \/ ReplyNotFound(r)
    \/ ReplyFault(r)
    \/ ReplyWithoutSession(r)

\* the conversation of a guest and of a signed-in user, with the session
\* terminated at some point
NextSession ==
    \/ \E r \in Requests :
          \/ posts < MaxSessionPosts /\ ChatPost(r, "guest", FALSE)
          \/ posts < MaxSessionPosts /\ ChatPost(r, "regular", TRUE)
          \/ PostStep(r)
    \/ terminateChatSession
    \/ TerminateConnectResolves
    \/ TerminateConnectRejects
    \/ Terminated
    \/ TerminateNotFound
    \/ TerminateFault

\* the conversation of one guest, a message at a time
NextChat ==
    \/ \E r \in {"r1"} :
          \/ ChatPost(r, "guest", FALSE)
          \/ SessionConnectResolves(r)
          \/ SessionConnectRejects(r)
          \/ SessionDescribedRunning(r)
          \/ SessionDescribedNotRunning(r)
          \/ SessionDescribeFault(r)
          \/ SessionStartAccepted(r)
          \/ SessionStartRefused(r)
          \/ SessionStartFault(r)
          \/ HistoryAnswered(r)
          \/ HistoryFault(r)
          \/ SendUserMessageDelivered(r)
          \/ SendUserMessageNotFound(r)
          \/ SendUserMessageFault(r)
          \/ RateLimitFromSession(r)
          \/ RateLimitSessionQueryFault(r)
          \/ RateLimitFromCookie(r)
          \/ ReplyDelivered(r)
          \/ ReplyNotFound(r)
          \/ ReplyFault(r)
          \/ ReplyWithoutSession(r)
    \/ EngineCloses(SessionId, "TIMED_OUT")

(***************************************************************************)
(* ProgressTranslator: the shared helpers of lib/workflow/progress-utils,  *)
(* the progress tool (the version built on the shared helpers and the one  *)
(* with its own local helpers) and GET /api/workflow/progress.             *)
(* A status payload is {status, currentStep, step}; a field the payload    *)
(* lacks is Undefined.  Step names and statuses are plain strings, a       *)
(* workflow id is a sequence of fragments (see Includes).                  *)
(***************************************************************************)
WORKFLOW_STEPS(workflowType) ==
    IF workflowType = "document_processing"
       THEN <<"validation", "download", "text_extraction", "chunking", "embedding",
              "storage">>
    ELSE IF workflowType = "semantic_search"
       THEN <<"embed_query", "retrieve_chunks", "generate_response">>
    ELSE << >>

\* String.prototype.toLowerCase on the status strings of the model
toLowerCase(s) ==
    CASE s \in {"RUNNING", "Running"} -> "running"
      [] s \in {"STARTED", "Started"} -> "started"
      [] s \in {"COMPLETED", "Completed"} -> "completed"
      [] s \in {"FINISHED", "Finished"} -> "finished"
      [] s \in {"FAILED", "Failed"} -> "failed"
      [] s \in {"ERROR", "Error"} -> "error"
      [] s \in {"CANCELLED", "Cancelled"} -> "cancelled"
      [] s \in {"CANCELED", "Canceled"} -> "canceled"
      [] s = "TERMINATED" -> "terminated"
      [] s = "TIMED_OUT" -> "timed_out"
      [] s = "UNKNOWN" -> "unknown"
      [] OTHER -> s

\* a mapTemporalStatus that compares the raw string: the mapping of
\* upper-case engine status names depends on the lower-casing
mapTemporalStatus_caseSensitive(status) ==
    CASE status \in {"running", "started"} -> "running"
      [] status \in {"completed", "finished"} -> "completed"
      [] status \in {"failed", "error"} -> "failed"
      [] status \in {"cancelled", "canceled"} -> "cancelled"
      [] OTHER -> "running"

\* switch (status?.toLowerCase())
mapTemporalStatus(status) ==
    LET lowered == IF status = Undefined THEN Undefined ELSE toLowerCase(status) IN
    CASE lowered \in {"running", "started"} -> "running"
      [] lowered \in {"completed", "finished"} -> "completed"
      [] lowered \in {"failed", "error"} -> "failed"
      [] lowered \in {"cancelled", "canceled"} -> "cancelled"
      [] OTHER -> "running"

\* the route's own mapTemporalStatus
routeMapTemporalStatus(status) ==
    LET lowered == IF status = Undefined THEN Undefined ELSE toLowerCase(status) IN
    CASE lowered \in {"running", "started"} -> "running"
      [] lowered \in {"completed", "finished"} -> "completed"
      [] lowered \in {"failed", "error"} -> "failed"
      [] lowered \in {"cancelled", "canceled"} -> "cancelled"
      [] OTHER -> "running"

\* the mapTemporalStatus local to the progress tool
toolMapTemporalStatus(status) ==
    LET lowered == IF status = Undefined THEN Undefined ELSE toLowerCase(status) IN
    CASE lowered \in {"running", "started"} -> "running"
      [] lowered \in {"completed", "finished"} -> "completed"
      [] lowered \in {"failed", "error"} -> "failed"
      [] lowered \in {"cancelled", "canceled"} -> "cancelled"
      [] OTHER -> "running"

\* a getStepStatus that marks every step up to the current one as running:
\* the shape of a step list depends on the comparisons with the current index
getStepStatus_runningUpTo(stepIndex, currentStepIndex, workflowStatus) ==
    IF workflowStatus = "completed" THEN "completed"
    ELSE IF workflowStatus = "failed" /\ stepIndex = currentStepIndex THEN "failed"
    ELSE IF stepIndex <= currentStepIndex /\ workflowStatus = "running" THEN "running"
    ELSE IF stepIndex < currentStepIndex THEN "completed"
    ELSE "pending"

\* progress-utils: the step status, with the override for a completed workflow
getStepStatus(stepIndex, currentStepIndex, workflowStatus) ==
    IF workflowStatus = "completed" THEN "completed"
    ELSE IF workflowStatus = "failed" /\ stepIndex = currentStepIndex THEN "failed"
    ELSE IF stepIndex < currentStepIndex THEN "completed"
    ELSE IF stepIndex = currentStepIndex /\ workflowStatus = "running" THEN "running"
    ELSE "pending"

\* the route's own getStepStatus
routeGetStepStatus(stepIndex, currentStepIndex, workflowStatus) ==
    IF workflowStatus = "failed" /\ stepIndex = currentStepIndex THEN "failed"
    ELSE IF stepIndex < currentStepIndex THEN "completed"
    ELSE IF stepIndex = currentStepIndex /\ workflowStatus = "running" THEN "running"
    ELSE "pending"

\* the getStepStatus local to the progress tool
toolGetStepStatus(stepIndex, currentStepIndex, workflowStatus) ==
    IF workflowStatus = "failed" /\ stepIndex = currentStepIndex THEN "failed"
    ELSE IF stepIndex < currentStepIndex THEN "completed"
    ELSE IF stepIndex = currentStepIndex /\ workflowStatus = "running" THEN "running"
    ELSE "pending"

\* baseTimes[workflowType] || 60
\* every type gets the default base time
baseTime_default(workflowType) == 60

baseTime(workflowType) ==
    IF workflowType = "document_processing" THEN 120
    ELSE IF workflowType = "semantic_search" THEN 30
    ELSE 60

\* remainingSteps * (baseTime / totalSteps); the catalogs divide their base
\* times evenly
estimateRemainingTime(workflowType, completedSteps, totalSteps) ==
    (totalSteps - completedSteps) * (baseTime(workflowType) \div totalSteps)

\* progress-utils determineWorkflowType(workflowId)
determineWorkflowTypeOfId(workflowId) ==
    IF Includes(workflowId, "document") THEN "document_processing" ELSE "semantic_search"

\* a calculateCompletedSteps that counts the current step as done
calculateCompletedSteps_plusOne(stepIndexNow, workflowStatus, totalSteps) ==
    IF workflowStatus = "completed" THEN totalSteps
    ELSE IF stepIndexNow >= 0 THEN stepIndexNow + 1 ELSE 0

\* a calculateCompletedSteps that lacks the clamp of an index of -1: the
\* bounds on completedSteps depend on the clamp
calculateCompletedSteps_unclamped(stepIndexNow, workflowStatus, totalSteps) ==
    IF workflowStatus = "completed" THEN totalSteps ELSE stepIndexNow

calculateCompletedSteps(stepIndexNow, workflowStatus, totalSteps) ==
    IF workflowStatus = "completed" THEN totalSteps
    ELSE IF stepIndexNow >= 0 THEN stepIndexNow ELSE 0

\* steps.findIndex(step => step.name === name): zero-based, -1 if absent
findIndex(steps, name) ==
    IF \E i \in DOMAIN steps : steps[i] = name
       THEN (CHOOSE i \in DOMAIN steps :
                steps[i] = name /\ \A j \in 1..(i - 1) : steps[j] # name) - 1
       ELSE -1

\* status.currentStep || status.step || 'unknown'
currentStepName(status) == OrElse(OrElse(status.currentStep, status.step), "unknown")

currentStepIndex(workflowId, status) ==
    findIndex(WORKFLOW_STEPS(determineWorkflowTypeOfId(workflowId)), currentStepName(status))

WorkflowProgress(workflowId, workflowType, status, currentStep, totalSteps, completedSteps) ==
    [workflowId |-> workflowId, workflowType |-> workflowType, status |-> status,
     currentStep |-> currentStep, totalSteps |-> totalSteps,
     completedSteps |-> completedSteps,
     estimatedDuration |-> estimateRemainingTime(workflowType, completedSteps, totalSteps)]

createWorkflowProgress(workflowId, status) ==
    LET workflowType == determineWorkflowTypeOfId(workflowId)
        steps == WORKFLOW_STEPS(workflowType)
        mappedStatus == mapTemporalStatus(status.status)
    IN WorkflowProgress(workflowId, workflowType, mappedStatus, currentStepName(status),
                        Len(steps),
                        calculateCompletedSteps(currentStepIndex(workflowId, status),
                                                mappedStatus, Len(steps)))

WorkflowStep(workflowId, stepName, stepIndex, status) ==
    [workflowId |-> workflowId, stepName |-> stepName, stepIndex |-> stepIndex,
     status |-> status]

createWorkflowSteps(workflowId, workflowType, stepIndexNow, workflowStatus) ==
    LET steps == WORKFLOW_STEPS(workflowType) IN
    [i \in DOMAIN steps |->
        WorkflowStep(workflowId, steps[i], i - 1,
                     getStepStatus(i - 1, stepIndexNow, workflowStatus))]

\* what a response carries when it carries no progress
NoProgress ==
    [workflowId |-> NoStr, workflowType |-> "none", status |-> "none",
     currentStep |-> "none", totalSteps |-> 0, completedSteps |-> 0,
     estimatedDuration |-> 0]

Refusal(by, code, workflowId) ==
    [by |-> by, code |-> code, workflowId |-> workflowId, rawStatus |-> Undefined,
     currentStepIndex |-> -1, progress |-> NoProgress, steps |-> << >>]

\* enableLiveUpdates: z.boolean().default(true)
enableLiveUpdatesDefault == TRUE

\* the tool's return without progress, {success: false, error, workflowId}:
\* fields lists the keys of the returned object, written the calls of
\* dataStream.writeData in order
toolFailure(code, workflowId, enableLiveUpdates, rawStatus) ==
    [by |-> "tool", code |-> code, workflowId |-> workflowId, rawStatus |-> rawStatus,
     currentStepIndex |-> -1, progress |-> NoProgress, steps |-> << >>,
     enableLiveUpdates |-> enableLiveUpdates,
     fields |-> {"success", "error", "workflowId"}, success |-> FALSE,
     shouldPoll |-> FALSE, pollInterval |-> 0, written |-> << >>]

\* polling is asked for whenever the workflow runs
liveUpdates_ignoresFlag(enableLiveUpdates, progress) == progress.status = "running"

\* if (enableLiveUpdates && progress.status === 'running')
liveUpdates(enableLiveUpdates, progress) ==
    enableLiveUpdates /\ progress.status = "running"

\* dataStream.writeData({type: 'workflowProgress', workflowId, progress}), then
\* one writeData({type: 'workflowStep', workflowId, step}) per step
streamed(workflowId, progress, stepDetails) ==
    <<[type |-> "workflowProgress", workflowId |-> workflowId, progress |-> progress]>>
      \o [i \in DOMAIN stepDetails |->
             [type |-> "workflowStep", workflowId |-> workflowId, step |-> stepDetails[i]]]

\* the progress tool on the shared helpers, given what getWorkflowStatus
\* returned: the object it returns and what it wrote to the data stream
trackWorkflowProgressResult(workflowId, enableLiveUpdates, status) ==
    IF status.status = "unknown"
       THEN toolFailure(404, workflowId, enableLiveUpdates, status.status)
    ELSE LET progress == createWorkflowProgress(workflowId, status)
             stepDetails ==
                createWorkflowSteps(workflowId, determineWorkflowTypeOfId(workflowId),
                                    currentStepIndex(workflowId, status), progress.status)
             live == liveUpdates(enableLiveUpdates, progress)
         IN [by |-> "tool", code |-> 200, workflowId |-> workflowId,
             rawStatus |-> status.status,
             currentStepIndex |-> currentStepIndex(workflowId, status),
             progress |-> progress,
             steps |-> stepDetails,
             enableLiveUpdates |-> enableLiveUpdates,
             fields |-> {"success", "progress", "steps", "message"}
                          \cup (IF live THEN {"shouldPoll", "pollInterval"} ELSE {}),
             success |-> TRUE,
             shouldPoll |-> live,
             pollInterval |-> IF live THEN 2000 ELSE 0,
             written |-> streamed(workflowId, progress, stepDetails)]

\* the progress tool with its local helpers:
\* completedSteps = currentStepIndex >= 0 ? currentStepIndex : 0
localCompletedSteps(stepIndexNow) == IF stepIndexNow >= 0 THEN stepIndexNow ELSE 0

localTrackWorkflowProgressResult(workflowId, status) ==
    IF status.status = "unknown"
       THEN [Refusal("localTool", 404, workflowId) EXCEPT !.rawStatus = status.status]
    ELSE LET workflowType == determineWorkflowTypeOfId(workflowId)
             steps == WORKFLOW_STEPS(workflowType)
             index == currentStepIndex(workflowId, status)
             progress == WorkflowProgress(workflowId, workflowType,
                                          toolMapTemporalStatus(status.status),
                                          currentStepName(status), Len(steps),
                                          localCompletedSteps(index))
         IN [by |-> "localTool", code |-> 200, workflowId |-> workflowId,
             rawStatus |-> status.status,
             currentStepIndex |-> index, progress |-> progress,
             steps |-> [i \in DOMAIN steps |->
                          WorkflowStep(workflowId, steps[i], i - 1,
                                       toolGetStepStatus(i - 1, index, progress.status))]]

\* GET: currentStepIndex >= 0
\*        ? currentStepIndex + (status.status === 'completed' ? 1 : 0) : 0
routeCompletedSteps(stepIndexNow, rawStatus) ==
    IF stepIndexNow >= 0
       THEN stepIndexNow + (IF rawStatus = "completed" THEN 1 ELSE 0)
       ELSE 0

\* GET /api/workflow/progress, given the session, the workflowId parameter
\* and what getWorkflowStatus returned
GETBody(workflowId, status) ==
    IF status.status = "unknown"
       THEN [Refusal("GET", 404, workflowId) EXCEPT !.rawStatus = status.status]
    ELSE LET workflowType == determineWorkflowTypeOfId(workflowId)
             steps == WORKFLOW_STEPS(workflowType)
             index == currentStepIndex(workflowId, status)
             progress == WorkflowProgress(workflowId, workflowType,
                                          routeMapTemporalStatus(status.status),
                                          currentStepName(status), Len(steps),
                                          routeCompletedSteps(index, status.status))
         IN [by |-> "GET", code |-> 200, workflowId |-> workflowId,
             rawStatus |-> status.status,
             currentStepIndex |-> index, progress |-> progress,
             steps |-> [i \in DOMAIN steps |->
                          WorkflowStep(workflowId, steps[i], i - 1,
                                       routeGetStepStatus(i - 1, index, progress.status))]]

\* the parameter is validated before the session is looked at
GETResult_validatesFirst(authenticated, workflowId, status) ==
    IF workflowId = NoStr THEN Refusal("GET", 400, workflowId)
    ELSE IF ~authenticated THEN Refusal("GET", 401, workflowId)
    ELSE GETBody(workflowId, status)

\* if (!session?.user) 401; if (!workflowId) 400; then the status lookup
GETResult(authenticated, workflowId, status) ==
    IF ~authenticated THEN Refusal("GET", 401, workflowId)
    ELSE IF workflowId = NoStr THEN Refusal("GET", 400, workflowId)
    ELSE GETBody(workflowId, status)

\* the inputs of the translator
ProgressIds ==
    { <<"document", "_processing", "-", "123">>,
      <<"incident", "-", "c1">>,
      <<"semantic", "_search", "-", "7">> }

RawStatuses ==
    { Undefined, "running", "RUNNING", "Started", "completed", "COMPLETED", "Finished",
      "failed", "Error", "cancelled", "Canceled", "TERMINATED", "TIMED_OUT", "paused",
      "unknown" }

CurrentStepInputs ==
    { Undefined, "", "bogus", "validation", "chunking", "storage", "retrieve_chunks" }

StepInputs == { Undefined, "download" }

\* no status lookup was made
NoPayload == [status |-> Undefined, currentStep |-> Undefined, step |-> Undefined]

StatusPayloads ==
    [status : RawStatuses, currentStep : CurrentStepInputs, step : StepInputs]

restVars == <<clientVars, connVars, engineVars, now, trigVars, dispVars, chatVars>>

\* the progress tool answers for a payload
trackWorkflowProgress(workflowId, enableLiveUpdates, status) ==
    /\ shown' = {trackWorkflowProgressResult(workflowId, enableLiveUpdates, status)}
    /\ UNCHANGED <<frontVars, restVars, poll, polls, seen, work>>

trackWorkflowProgressLocal(workflowId, status) ==
    /\ shown' = {localTrackWorkflowProgressResult(workflowId, status)}
    /\ UNCHANGED <<frontVars, restVars, poll, polls, seen, work>>

GET(authenticated, workflowId, status) ==
    /\ shown' = {GETResult(authenticated, workflowId, status)}
    /\ UNCHANGED <<frontVars, restVars, poll, polls, seen, work>>

NextTranslate ==
    \/ \E workflowId \in ProgressIds, status \in StatusPayloads :
          \/ \E enableLiveUpdates \in BOOLEAN :
                trackWorkflowProgress(workflowId, enableLiveUpdates, status)
          \/ trackWorkflowProgressLocal(workflowId, status)
    \/ \E authenticated \in BOOLEAN, workflowId \in ProgressIds \cup {NoStr} :
          \E status \in IF authenticated /\ workflowId # NoStr
                            THEN StatusPayloads ELSE {NoPayload} :
             GET(authenticated, workflowId, status)

(***************************************************************************)
(* Polling a dispatched document workflow: getWorkflowStatus (describe,    *)
(* then the type's status query, with the describe-based fallback) feeding *)
(* the GET handler or the progress tool.  The worker runs the catalog's    *)
(* steps in order and answers the query with its current step.             *)
(***************************************************************************)
DocEvent == Event(<<"document", "_upload">>, <<"chat">>, <<"c1">>, NoStr)
DocId == DOCUMENT_PROCESSING \o <<"-", "c1">>

PollVias == {"GET", "tool"}

\* POST /api/workflow/progress and the getWorkflowStepDetails tool
InspectVias == {"POST", "stepTool"}

\* a handler's position, its inputs, and what it answered last: lookup is what
\* became of its engine lookup (none made, unknown, found, raised), code the
\* HTTP status (for a tool 200 is success: true and 500 success: false),
\* detail the stepDetails of an inspection
PollIdle ==
    [pc |-> "idle", via |-> "none", authenticated |-> TRUE, workflowId |-> NoStr,
     stepName |-> "", description |-> "none", lookup |-> "none", code |-> 0,
     detail |-> "none"]

\* the index of the step the worker of the current run is at
doneOf(id) ==
    IF id \in DOMAIN work /\ Known(id) /\ work[id].run = executions[id].runs
       THEN work[id].done
       ELSE 0

lastStepOf(id) == Len(WORKFLOW_STEPS(determineWorkflowTypeOfId(id))) - 1

\* the worker of a running execution goes on to its next step
WorkerAdvances(id) ==
    /\ Running(id)
    /\ doneOf(id) < lastStepOf(id)
    /\ work' = [i \in DOMAIN work \cup {id} |->
                  IF i = id THEN [run |-> executions[id].runs, done |-> doneOf(id) + 1]
                            ELSE work[i]]
    /\ UNCHANGED <<frontVars, restVars, shown, poll, polls, seen>>

\* the status query getWorkflowStatus sends, by the content of the id
statusQuery(workflowId) ==
    IF Includes(workflowId, "incident") THEN "getIncidentStatus"
    ELSE IF Includes(workflowId, "document") THEN "getProcessingStatus"
    ELSE "getStatus"

\* what the execution's status query answers: a run the engine terminated or
\* timed out never recorded another status than running
queriedStatus(engineStatus) ==
    IF engineStatus \in {"COMPLETED", "FAILED", "CANCELLED"}
       THEN toLowerCase(engineStatus)
       ELSE "running"

queriedPayload(id) ==
    [status |-> queriedStatus(executions[id].status),
     currentStep |-> WORKFLOW_STEPS(determineWorkflowTypeOfId(id))[doneOf(id) + 1],
     step |-> Undefined]

\* the fallback of getWorkflowStatus: {status: description.status.name, ...}
describedPayload(statusName) ==
    [status |-> statusName, currentStep |-> Undefined, step |-> Undefined]

\* a poll begins: const client = await getTemporalClient()
\* the GET answers 401 and 400 before any lookup
pollProgress(p, via, authenticated, workflowId) ==
    LET early == GETResult(authenticated, workflowId, NoPayload)
        request == [PollIdle EXCEPT !.via = via, !.authenticated = authenticated,
                                    !.workflowId = workflowId]
    IN /\ poll[p].pc = "idle"
       /\ polls < MaxPolls
       /\ polls' = polls + 1
       /\ IF via = "GET" /\ early.code \in {400, 401}
             THEN /\ poll' = [poll EXCEPT ![p] = [request EXCEPT !.code = early.code]]
                  /\ shown' = {early}
             ELSE /\ poll' = [poll EXCEPT ![p] =
                               [request EXCEPT !.pc = IF clientCached THEN "describe"
                                                                       ELSE "connect"]]
                  /\ shown' = shown
       /\ UNCHANGED <<frontVars, restVars, seen, work>>

PollConnectResolves(p) ==
    /\ poll[p].pc = "connect"
    /\ connectResolved
    /\ poll' = [poll EXCEPT ![p].pc = IF poll[p].via \in InspectVias THEN "fetch"
                                                                    ELSE "describe"]
    /\ UNCHANGED <<frontVars, connVars, engineVars, now, trigVars, dispVars, chatVars,
                   shown, polls, seen, work>>

\* getTemporalClient rejects outside the try of getWorkflowStatus: the GET
\* answers 500 and the tool {success: false}, no progress is reported
PollConnectRejects(p) ==
    /\ poll[p].pc = "connect"
    /\ EngineFault
    /\ poll' = [poll EXCEPT ![p].pc = "idle", ![p].lookup = "raised", ![p].code = 500,
                            ![p].detail = IF poll[p].via \in InspectVias THEN "error"
                                                                         ELSE "none"]
    /\ shown' = IF poll[p].via \in InspectVias
                  THEN shown
                  ELSE IF poll[p].via = "tool"
                     THEN {toolFailure(500, poll[p].workflowId,
                                       enableLiveUpdatesDefault, Undefined)}
                  ELSE {Refusal(poll[p].via, 500, poll[p].workflowId)}
    /\ UNCHANGED <<frontVars, clientVars, connVars, now, trigVars, dispVars, chatVars,
                   polls, seen, work>>

\* const description = await handle.describe()
PollDescribed(p) ==
    /\ poll[p].pc = "describe"
    /\ Known(poll[p].workflowId)
    /\ poll' = [poll EXCEPT ![p].pc = "query",
                            ![p].description = executions[poll[p].workflowId].status]
    /\ UNCHANGED <<frontVars, restVars, shown, polls, seen, work>>

\* what the handler answers for a payload, and the progress it reports
answered(p, status) ==
    IF poll[p].via = "GET"
       THEN GETResult(poll[p].authenticated, poll[p].workflowId, status)
       ELSE trackWorkflowProgressResult(poll[p].workflowId, enableLiveUpdatesDefault,
                                        status)

Answer(p, status, lookup) ==
    LET response == answered(p, status)
        id == poll[p].workflowId
    IN /\ shown' = {response}
       /\ seen' = IF response.code = 200
                     THEN [i \in DOMAIN seen \cup {id} |->
                              IF i = id THEN response.progress ELSE seen[i]]
                     ELSE seen
       /\ poll' = [poll EXCEPT ![p].pc = "idle", ![p].lookup = lookup,
                               ![p].code = response.code]

\* describe fails (unknown workflow id): {status: 'unknown', error}
PollDescribeNotFound(p) ==
    /\ poll[p].pc = "describe"
    /\ ~Known(poll[p].workflowId)
    /\ Answer(p, describedPayload("unknown"), "unknown")
    /\ UNCHANGED <<frontVars, restVars, polls, work>>

PollDescribeFault(p) ==
    /\ poll[p].pc = "describe"
    /\ EngineFault
    /\ Answer(p, describedPayload("unknown"), "unknown")
    /\ UNCHANGED <<frontVars, clientVars, connVars, now, trigVars, dispVars, chatVars, polls, work>>

\* status = await handle.query('getProcessingStatus')
PollQueryAnswered(p) ==
    /\ poll[p].pc = "query"
    /\ Answer(p, queriedPayload(poll[p].workflowId), "found")
    /\ UNCHANGED <<frontVars, restVars, polls, work>>

\* catch (queryError): the basic description is the status
PollQueryFails(p) ==
    /\ poll[p].pc = "query"
    /\ EngineFault
    /\ Answer(p, describedPayload(poll[p].description), "found")
    /\ UNCHANGED <<frontVars, clientVars, connVars, now, trigVars, dispVars, chatVars, polls, work>>

\* POST /api/workflow/progress: 401 without a session, 400 without workflowId
\* or stepName, then const client = await getTemporalClient(); the tool has
\* neither check
inspectStep(p, via, authenticated, workflowId, stepName) ==
    LET request == [PollIdle EXCEPT !.via = via, !.authenticated = authenticated,
                                    !.workflowId = workflowId, !.stepName = stepName]
        early == IF ~authenticated THEN 401
                 ELSE IF workflowId = NoStr \/ stepName = "" THEN 400
                 ELSE 0
    IN /\ poll[p].pc = "idle"
       /\ polls < MaxPolls
       /\ polls' = polls + 1
       /\ poll' = [poll EXCEPT ![p] =
                     IF via = "POST" /\ early # 0
                        THEN [request EXCEPT !.code = early, !.detail = "error"]
                        ELSE [request EXCEPT !.pc = IF clientCached THEN "fetch"
                                                                    ELSE "connect"]]
       /\ UNCHANGED <<frontVars, restVars, shown, seen, work>>

\* what the handler answers when the history is not obtained: the POST's
\* inner catch returns 200 with {stepName, workflowId, message}, the tool's
\* catch {success: false, error}
historyUnavailable(p) ==
    [poll EXCEPT ![p].pc = "idle", ![p].lookup = "unknown",
                 ![p].code = IF poll[p].via = "POST" THEN 200 ELSE 500,
                 ![p].detail = IF poll[p].via = "POST" THEN "degraded" ELSE "error"]

\* const history = await handle.fetchHistory(): the events of the step
StepHistoryFetched(p) ==
    /\ poll[p].pc = "fetch"
    /\ Known(poll[p].workflowId)
    /\ poll' = [poll EXCEPT ![p].pc = "idle", ![p].lookup = "found", ![p].code = 200,
                            ![p].detail = "events"]
    /\ UNCHANGED <<frontVars, restVars, shown, polls, seen, work>>

StepHistoryNotFound(p) ==
    /\ poll[p].pc = "fetch"
    /\ ~Known(poll[p].workflowId)
    /\ poll' = historyUnavailable(p)
    /\ UNCHANGED <<frontVars, restVars, shown, polls, seen, work>>

StepHistoryFault(p) ==
    /\ poll[p].pc = "fetch"
    /\ EngineFault
    /\ poll' = historyUnavailable(p)
    /\ UNCHANGED <<frontVars, clientVars, connVars, now, trigVars, dispVars, chatVars,
                   shown, polls, seen, work>>

InitProg ==
    /\ shown = {}
    /\ poll = [p \in Pollers |-> PollIdle]
    /\ polls = 0
    /\ seen = [i \in {} |-> 0]
    /\ work = [i \in {} |-> 0]

NextPoll ==
    \/ \E d \in {"d1"} :
          \/ triggerWorkflow(d, DocEvent, NoStr)
          \/ DispConnectResolves(d)
          \/ DispConnectRejects(d)
          \/ DispStartAccepted(d)
          \/ DispStartRefused(d)
          \/ DispStartFault(d)
    \/ \E p \in {"p1"} :
          \/ \E authenticated \in BOOLEAN, workflowId \in {DocId, NoStr} :
                pollProgress(p, "GET", authenticated, workflowId)
          \/ pollProgress(p, "tool", TRUE, DocId)
          \/ \E authenticated \in BOOLEAN, stepName \in {"chunking", ""} :
                inspectStep(p, "POST", authenticated, DocId, stepName)
          \/ inspectStep(p, "stepTool", TRUE, DocId, "chunking")
          \/ StepHistoryFetched(p)
          \/ StepHistoryNotFound(p)
          \/ StepHistoryFault(p)
          \/ PollConnectResolves(p)
          \/ PollConnectRejects(p)
          \/ PollDescribed(p)
          \/ PollDescribeNotFound(p)
          \/ PollDescribeFault(p)
          \/ PollQueryAnswered(p)
          \/ PollQueryFails(p)
    \/ WorkerAdvances(DocId)
    \/ doneOf(DocId) = lastStepOf(DocId) /\ EngineCloses(DocId, "COMPLETED")
    \/ EngineCloses(DocId, "FAILED")
    \/ EngineCloses(DocId, "TERMINATED")

InitTrig ==
    /\ trig = [t \in Triggers |-> TrigIdle]
    /\ trigCalls = 0

(***************************************************************************)
(* EventExtractor and the trigger tool.                                    *)
(*   extractEventFromMessage: try { generateObject(...) } catch { return   *)
(*     {isWorkflowEvent: false, reasoning: 'Error occurred ...'} }         *)
(*   triggerWorkflow (tool): extract; not an event: workflowTriggered      *)
(*     false; else createTemporalEvent and startWorkflow(temporalEvent);   *)
(*     every error is caught and reported with success: false.             *)
(* The tool's startWorkflow call is the call of dispatcher d2.             *)
(***************************************************************************)
MaxToolCalls == 2

ToolDispatcher == "d2"

\* the object of the EventExtractionSchema; eventType, source and priority
\* are optional
Extracted(isWorkflowEvent, eventType, source, priority, reasoning) ==
    [isWorkflowEvent |-> isWorkflowEvent, eventType |-> eventType, source |-> source,
     priority |-> priority, reasoning |-> reasoning]

\* the user messages of the prompt's examples, with the classification the
\* prompt gives for each
ToolMessages ==
    { "Hello, how are you?", "We have a critical system outage",
      "Process the document at s3://bucket/file.pdf", "Run the daily data pipeline" }

exampleClassification(userMessage) ==
    CASE userMessage = "We have a critical system outage" ->
            Extracted(TRUE, <<"incident">>, <<"monitoring">>, "critical", "outage")
      [] userMessage = "Process the document at s3://bucket/file.pdf" ->
            Extracted(TRUE, <<"document", "-added">>, <<"s3">>, Undefined, "document")
      [] userMessage = "Run the daily data pipeline" ->
            Extracted(TRUE, <<"data", "-processing">>, Absent, Undefined, "pipeline")
      [] OTHER -> Extracted(FALSE, Absent, Absent, Undefined, "General chat")

\* generateObject returned no object
NoObject == Extracted(FALSE, Absent, Absent, Undefined, "")

\* what generateObject can do for a message: the object of the example, an
\* object that says it is an event and leaves the optional fields out, a
\* model error, or output that does not fit the schema (it throws)
GenerateOutcomes(userMessage) ==
    { [kind |-> "object", object |-> exampleClassification(userMessage)],
      [kind |-> "object",
       object |-> Extracted(TRUE, Absent, Absent, Undefined, "an event")],
      [kind |-> "error", object |-> NoObject],
      [kind |-> "malformed", object |-> NoObject] }

\* an extractor whose catch throws the failure on
extractEventFromMessage_rethrows(outcome) ==
    IF outcome.kind = "object"
       THEN outcome.object
       ELSE [isWorkflowEvent |-> FALSE, raised |-> TRUE, reasoning |-> ""]

extractEventFromMessage(outcome) ==
    IF outcome.kind = "object"
       THEN outcome.object
       ELSE Extracted(FALSE, Absent, Absent, Undefined,
                      "Error occurred during event extraction")

\* createTemporalEvent: eventType: extractedEvent.eventType!, source:
\* extractedEvent.source || 'user', chatId; no workflowType
createTemporalEvent(extractedEvent, chatId) ==
    Event(extractedEvent.eventType,
          IF extractedEvent.source = Absent THEN <<"user">> ELSE extractedEvent.source,
          chatId, NoStr)

\* a result that says the workflow was triggered although it was not
NoResult_triggered ==
    [success |-> FALSE, workflowTriggered |-> TRUE, workflowId |-> NoStr,
     runId |-> NoStr, error |-> "none", message |-> "none"]

\* {success: false, workflowTriggered: false, message}
NoResult ==
    [success |-> FALSE, workflowTriggered |-> FALSE, workflowId |-> NoStr,
     runId |-> NoStr, error |-> "none", message |-> "none"]

\* base is the number of dispatcher calls begun when the tool reached its
\* startWorkflow call, starts the engine starts issued by that call
ToolIdle ==
    [pc |-> "idle", calls |-> 0, userMessage |-> "none", outcome |-> "none",
     extracted |-> NoObject, extractorRaised |-> FALSE, base |-> 0, starts |-> 0,
     result |-> NoResult]

\* execute: async ({ userMessage })
triggerWorkflowTool(userMessage) ==
    /\ tool.pc \in {"idle", "done"}
    /\ tool.calls < MaxToolCalls
    /\ tool' = [ToolIdle EXCEPT !.pc = "extract", !.calls = tool.calls + 1,
                                !.userMessage = userMessage]
    /\ UNCHANGED <<restVars, progVars, view, net, inspected>>

\* const extractedEvent = await extractEventFromMessage(userMessage);
\* if (!extractedEvent.isWorkflowEvent) return {success: false, ...};
\* otherwise startWorkflow(temporalEvent) is called next
ToolExtracted(outcome) ==
    LET extractedEvent == extractEventFromMessage(outcome) IN
    /\ tool.pc = "extract"
    /\ tool' = IF "raised" \in DOMAIN extractedEvent
                  THEN [tool EXCEPT !.pc = "done", !.outcome = outcome.kind,
                                    !.extractorRaised = TRUE,
                                    !.result = [NoResult EXCEPT !.error = "extraction"]]
                  ELSE IF ~extractedEvent.isWorkflowEvent
                  THEN [tool EXCEPT !.pc = "done", !.outcome = outcome.kind,
                                    !.extracted = extractedEvent,
                                    !.result = [NoResult EXCEPT
                                                  !.message = extractedEvent.reasoning]]
                  ELSE [tool EXCEPT !.pc = "dispatch", !.outcome = outcome.kind,
                                    !.extracted = extractedEvent, !.base = dispCalls]
    /\ UNCHANGED <<restVars, progVars, view, net, inspected>>

\* const result = await startWorkflow(temporalEvent)
ToolStartsWorkflow ==
    /\ tool.pc = "dispatch"
    /\ disp[ToolDispatcher].call <= tool.base
    /\ triggerWorkflow(ToolDispatcher, createTemporalEvent(tool.extracted, <<ChatId>>), NoStr)

toolDispatchEnded(pc) ==
    /\ tool.pc = "dispatch"
    /\ disp[ToolDispatcher].call > tool.base
    /\ disp[ToolDispatcher].pc = pc

\* return {success: true, workflowId: result.workflowId, runId: result.runId,
\*         workflowTriggered: true, ...}
ToolReturns ==
    /\ toolDispatchEnded("returned")
    /\ tool' = [tool EXCEPT !.pc = "done", !.starts = disp[ToolDispatcher].starts,
                            !.result = [success |-> TRUE, workflowTriggered |-> TRUE,
                                        workflowId |-> disp[ToolDispatcher].workflowId,
                                        runId |-> disp[ToolDispatcher].runId,
                                        error |-> "none", message |-> "triggered"]]
    /\ UNCHANGED <<restVars, progVars, view, net, inspected>>

\* catch (error): {success: false, workflowTriggered: false, error: error.message}
ToolCatches ==
    /\ toolDispatchEnded("raised")
    /\ tool' = [tool EXCEPT !.pc = "done", !.starts = disp[ToolDispatcher].starts,
                            !.result = [NoResult EXCEPT
                                          !.error = disp[ToolDispatcher].error,
                                          !.message = "Failed to trigger workflow"]]
    /\ UNCHANGED <<restVars, progVars, view, net, inspected>>

InitTool == tool = ToolIdle

NextTool ==
    \/ \E userMessage \in ToolMessages : triggerWorkflowTool(userMessage)
    \/ \E outcome \in GenerateOutcomes(tool.userMessage) : ToolExtracted(outcome)
    \/ ToolStartsWorkflow
    \/ ToolReturns
    \/ ToolCatches
    \/ \E event \in DispatchEvents : triggerWorkflow("d1", event, NoStr)
    \/ \E d \in Dispatchers :
          \/ DispConnectResolves(d)
          \/ DispConnectRejects(d)
          \/ DispStartAccepted(d)
          \/ DispStartRefused(d)
          \/ DispStartFault(d)

(***************************************************************************)
(* StepInspector: the details of a step from the workflow history.         *)
(*   stepEvents = history.events?.filter(event =>                          *)
(*     event.activityTaskScheduledEventAttributes?.activityType?.name      *)
(*       ?.includes(stepName) || event.activityTaskCompletedEventAttributes*)
(*   ) || []                                                               *)
(*   details: event.activityTaskCompletedEventAttributes?.result ||        *)
(*            event.activityTaskFailedEventAttributes?.failure ||          *)
(*            event.activityTaskScheduledEventAttributes                   *)
(* An event carries the attributes of its own kind; an absent or empty     *)
(* result or failure is "".                                                *)
(***************************************************************************)
MaxHistory == 3

HistoryEvent(eventType, scheduled, name, input, completed, result, failed, failure) ==
    [eventType |-> eventType, eventTime |-> 0,
     scheduled |-> [present |-> scheduled, name |-> name, input |-> input],
     completed |-> [present |-> completed, result |-> result],
     failed |-> [present |-> failed, failure |-> failure]]

\* the kinds of event of a history: two activities scheduled, one scheduled
\* without a type name, a completion with and without a result, a failure,
\* and an event that is none of these
EventKinds ==
    { HistoryEvent("ActivityTaskScheduled", TRUE, <<"chunking", "_activity">>, "in1",
                   FALSE, "", FALSE, ""),
      HistoryEvent("ActivityTaskScheduled", TRUE, <<"storage", "_activity">>, "in2",
                   FALSE, "", FALSE, ""),
      HistoryEvent("ActivityTaskScheduled", TRUE, Absent, "in3", FALSE, "", FALSE, ""),
      HistoryEvent("ActivityTaskCompleted", FALSE, Absent, "", TRUE, "out", FALSE, ""),
      HistoryEvent("ActivityTaskCompleted", FALSE, Absent, "", TRUE, "", FALSE, ""),
      HistoryEvent("ActivityTaskFailed", FALSE, Absent, "", FALSE, "", TRUE, "boom"),
      HistoryEvent("WorkflowExecutionStarted", FALSE, Absent, "", FALSE, "", FALSE, "") }

\* the histories read: the events in their order, eventTime their position
Histories ==
    UNION { { [i \in 1..n |-> [kinds[i] EXCEPT !.eventTime = i]] :
                 kinds \in [1..n -> EventKinds] } : n \in 0..MaxHistory }

InspectedStepNames == {"chunking", "embedding"}

\* a filter that keeps the scheduled events of the step only
selected_scheduledOnly(event, stepName) ==
    /\ event.scheduled.present
    /\ event.scheduled.name # Absent
    /\ Includes(event.scheduled.name, stepName)

\* the filter's predicate
selected(event, stepName) ==
    \/ /\ event.scheduled.present
       /\ event.scheduled.name # Absent
       /\ Includes(event.scheduled.name, stepName)
    \/ event.completed.present

\* a || b || c of the projection: the first that is there and not empty
payload(event) ==
    IF event.completed.present /\ event.completed.result # ""
       THEN [of |-> "result", value |-> event.completed.result]
    ELSE IF event.failed.present /\ event.failed.failure # ""
       THEN [of |-> "failure", value |-> event.failed.failure]
    ELSE IF event.scheduled.present
       THEN [of |-> "schedule", value |-> event.scheduled.input]
    ELSE [of |-> "undefined", value |-> ""]

RECURSIVE filter(_, _)
filter(events, stepName) ==
    IF events = << >> THEN << >>
    ELSE IF selected(Head(events), stepName)
       THEN <<Head(events)>> \o filter(Tail(events), stepName)
       ELSE filter(Tail(events), stepName)

stepDetailsOf(events, stepName) ==
    LET stepEvents == filter(events, stepName) IN
    [stepName |-> stepName, events |-> Len(stepEvents),
     details |-> [k \in DOMAIN stepEvents |->
                    [eventType |-> stepEvents[k].eventType,
                     timestamp |-> stepEvents[k].eventTime,
                     details |-> payload(stepEvents[k])]]]

NoInspection == [history |-> << >>, stepDetails |-> stepDetailsOf(<< >>, "")]

\* const history = await handle.fetchHistory(); ...; return {success: true,
\* stepDetails}
getWorkflowStepDetails(events, stepName) ==
    /\ inspected' = [history |-> events, stepDetails |-> stepDetailsOf(events, stepName)]
    /\ UNCHANGED <<restVars, progVars, view, net, tool>>

InitInspect == inspected = NoInspection

NextInspect ==
    \E events \in Histories, stepName \in InspectedStepNames :
        getWorkflowStepDetails(events, stepName)

(***************************************************************************)
(* WorkflowProgressComponent: the polling effect.                          *)
(*   useEffect(() => {                                                     *)
(*     if (!enablePolling || !progress || progress.status !== 'running')   *)
(*       return;                                                           *)
(*     const interval = setInterval(async () => { fetch; setProgress },    *)
(*                                  pollInterval);                         *)
(*     return () => clearInterval(interval)                                *)
(*   }, [workflowId, enablePolling, pollInterval, progress?.status])       *)
(* The callback of a tick does not wait for the fetch of the tick before,  *)
(* and a response is applied whenever it arrives.                          *)
(***************************************************************************)
\* fetches of one component that can be in flight together
MaxInFlight == 2
Slots == 1..MaxInFlight

\* status "none" is progress === null
ViewIdle ==
    [mounted |-> FALSE, enablePolling |-> FALSE, initial |-> "none", status |-> "none",
     interval |-> FALSE, stopped |-> FALSE]

NoFetch == [stage |-> "free", ok |-> FALSE, status |-> "none"]

\* whether the effect leaves an interval behind
pollingEffect(enablePolling, status) == enablePolling /\ status = "running"

\* the component is rendered with its props; useState(initialProgress || null).
\* An initial progress is one a GET has answered, for an execution the engine
\* knew then.
Mount(enablePolling, initialStatus) ==
    /\ ~view.mounted
    /\ initialStatus = "none" \/ Known(DocId)
    /\ view' = [mounted |-> TRUE, enablePolling |-> enablePolling,
                initial |-> initialStatus, status |-> initialStatus,
                interval |-> pollingEffect(enablePolling, initialStatus),
                stopped |-> FALSE]
    /\ UNCHANGED <<restVars, progVars, net, tool, inspected>>

\* the interval fires: fetch(`/api/workflow/progress?workflowId=${workflowId}`)
PollTick(s) ==
    /\ view.interval
    /\ net[s].stage = "free"
    /\ net' = [net EXCEPT ![s].stage = "sent"]
    /\ UNCHANGED <<restVars, progVars, view, tool, inspected>>

\* the GET handler answers a fetch from what getWorkflowStatus returned
served(s, status) ==
    LET response == GETResult(TRUE, DocId, status) IN
    [net EXCEPT ![s] = [stage |-> "answered", ok |-> response.code = 200,
                        status |-> response.progress.status]]

ServerAnswers(s) ==
    /\ net[s].stage = "sent"
    /\ net' = served(s, IF Known(DocId) THEN queriedPayload(DocId)
                                         ELSE describedPayload("unknown"))
    /\ UNCHANGED <<restVars, progVars, view, tool, inspected>>

\* the status query failed: the description is the status
ServerAnswersDescribed(s) ==
    /\ net[s].stage = "sent"
    /\ Known(DocId)
    /\ EngineFault
    /\ net' = served(s, describedPayload(executions[DocId].status))
    /\ UNCHANGED <<clientVars, connVars, now, trigVars, dispVars, chatVars, progVars,
                   view, tool, inspected>>

\* describe failed: status unknown, 404
ServerAnswersUnknown(s) ==
    /\ net[s].stage = "sent"
    /\ EngineFault
    /\ net' = served(s, describedPayload("unknown"))
    /\ UNCHANGED <<clientVars, connVars, now, trigVars, dispVars, chatVars, progVars,
                   view, tool, inspected>>

\* if (response.ok) { setProgress(data.progress); setSteps(data.steps) }: the
\* effect runs again when progress.status has changed
ResponseArrives(s) ==
    /\ net[s].stage = "answered"
    /\ net' = [net EXCEPT ![s] = NoFetch]
    /\ view' = IF net[s].ok
                  THEN [view EXCEPT !.status = net[s].status,
                                    !.interval = pollingEffect(view.enablePolling,
                                                               net[s].status),
                                    !.stopped = @ \/ net[s].status # "running"]
                  ELSE view
    /\ UNCHANGED <<restVars, progVars, tool, inspected>>

\* the retention period of a closed execution ends: the engine forgets it
EngineForgets(id) ==
    /\ Known(id)
    /\ ~Running(id)
    /\ executions' = [i \in DOMAIN executions \ {id} |-> executions[i]]
    /\ UNCHANGED <<clientVars, connVars, faults, now, trigVars, dispVars, chatVars,
                   progVars, frontVars>>

InitView ==
    /\ view = ViewIdle
    /\ net = [s \in Slots |-> NoFetch]

NextWatch ==
    \/ \E d \in {"d1"} :
          \/ triggerWorkflow(d, DocEvent, NoStr)
          \/ DispConnectResolves(d)
          \/ DispConnectRejects(d)
          \/ DispStartAccepted(d)
          \/ DispStartRefused(d)
          \/ DispStartFault(d)
    \/ WorkerAdvances(DocId)
    \/ doneOf(DocId) = lastStepOf(DocId) /\ EngineCloses(DocId, "COMPLETED")
    \/ EngineCloses(DocId, "FAILED")
    \/ EngineCloses(DocId, "TERMINATED")
    \/ EngineForgets(DocId)
    \/ \E enablePolling \in BOOLEAN, initialStatus \in {"none", "running", "completed"} :
          Mount(enablePolling, initialStatus)
    \/ \E s \in Slots :
          \/ PollTick(s)
          \/ ServerAnswers(s)
          \/ ServerAnswersDescribed(s)
          \/ ServerAnswersUnknown(s)
          \/ ResponseArrives(s)

InitFront ==
    /\ InitView
    /\ InitTool
    /\ InitInspect

Init == InitConn /\ InitEngine /\ InitTrig /\ InitDisp /\ InitChat /\ InitProg /\ InitFront

SpecConn == Init /\ [][NextConn]_vars

SpecTool == Init /\ [][NextTool]_vars

SpecInspect == Init /\ [][NextInspect]_vars

SpecWatch == Init /\ [][NextWatch]_vars

\* the timer keeps firing, the server answers, responses arrive
SpecWatchLive ==
    /\ SpecWatch
    /\ WF_vars(\E s \in Slots : PollTick(s))
    /\ WF_vars(\E s \in Slots : ServerAnswers(s))
    /\ WF_vars(\E s \in Slots : ResponseArrives(s))

NextTrig ==
    \/ \E t \in Triggers, event \in TriggerEvents, workflowId \in WorkflowIdArgs :
          triggerRootOrchestrator(t, event, workflowId)
    \/ \E t \in Triggers :
          \/ TrigConnectResolves(t)
          \/ TrigConnectRejects(t)
          \/ TrigSignalDelivered(t)
          \/ TrigSignalNotFound(t)
          \/ TrigSignalFault(t)
          \/ TrigStartAccepted(t)
          \/ TrigStartRefused(t)
          \/ TrigStartFault(t)
          \/ TrigSecondSignalDelivered(t)
          \/ TrigSecondSignalNotFound(t)
          \/ TrigSecondSignalFault(t)
    \/ \E id \in DOMAIN executions : EngineCloses(id, "COMPLETED")
    \/ Tick

SpecTrig == Init /\ [][NextTrig]_vars

SpecDisp == Init /\ [][NextDisp]_vars

SpecChat == Init /\ [][NextChat]_vars

SpecSession == Init /\ [][NextSession]_vars

SpecTranslate == Init /\ [][NextTranslate]_vars

SpecPoll == Init /\ [][NextPoll]_vars

(***************************************************************************)
(* Claims about the connector and the signal-or-start trigger.             *)
(***************************************************************************)
\* the signals of one triggerRootOrchestrator call that its execution holds
signalsOf(t) ==
    IF Known(trig[t].workflowId)
       THEN {i \in DOMAIN executions[trig[t].workflowId].signals :
                executions[trig[t].workflowId].signals[i].call = trig[t].call}
       ELSE {}

firstRunsOnly ==
    \A id \in DOMAIN executions :
        executions[id].runs = 1 /\ executions[id].status = "RUNNING"

\* C1: with the engine reachable and no execution closing, concurrent
\* triggers of one conversation never end with a raised trigger: each
\* returns, and its event has been signalled to the running instance.
C1_ConcurrentTriggersAllReturn ==
    (faults = 0 /\ firstRunsOnly) =>
        \A t \in Triggers :
            /\ trig[t].pc # "raised"
            /\ trig[t].pc = "returned" =>
                  /\ Running(trig[t].workflowId)
                  /\ Cardinality(signalsOf(t)) = 1

\* C2: two finished triggerWorkflow calls whose events carry the same chatId
\* (no explicit workflowId, a dispatchable type, the engine reachable) have
\* both returned a result, and the two results name the same workflowId.
C2_SameChatSameWorkflow ==
    \A d, e \in Dispatchers :
        ( /\ d # e /\ faults = 0
          /\ disp[d].pc \in {"returned", "raised"} /\ disp[e].pc \in {"returned", "raised"}
          /\ disp[d].arg = NoStr /\ disp[e].arg = NoStr
          /\ disp[d].event.chatId # NoStr /\ disp[d].event.chatId = disp[e].event.chatId
          /\ disp[d].error # "unsupported" /\ disp[e].error # "unsupported" )
        => /\ disp[d].pc = "returned" /\ disp[e].pc = "returned"
           /\ disp[d].workflowId = disp[e].workflowId

\* C3: with the engine reachable and the session's first run alive, none of
\* the first N messages of the conversation is rejected, and the (N+1)-th is
\* rejected with 429 rate_limited, limit = N and current = the compared count.
C3_NthAcceptedNextRejected ==
    (faults = 0 /\ firstRunsOnly) =>
        \A o \in outcomes :
            /\ o.n <= maxMessagesPerDay => o.status = 200
            /\ o.n = maxMessagesPerDay + 1 =>
                  /\ o.status = 429 /\ o.error = "rate_limited"
                  /\ o.limit = maxMessagesPerDay /\ o.current = o.compared

\* C4: at most one Connection.connect completes in the process and every
\* caller of getTemporalClient is handed the same client.
C4_AtMostOneConnection ==
    /\ connects <= 1
    /\ Cardinality(handed) <= 1

\* C5: a call of getTemporalClient that begins after a handle has been
\* returned gets that same handle, and makes no connection attempt.
C5_LaterCallsSameHandle ==
    \A k \in Callers :
        (conn[k].pc = "returned" /\ conn[k].seen # {}) =>
            /\ \A h \in conn[k].seen : conn[k].ret = h
            /\ ~conn[k].attempted

\* C6: a trigger running with no other trigger in flight issues the start
\* only when no running instance of its workflow id exists.
C6_StartOnlyIfAbsent ==
    [][\A t \in Triggers :
          (trig[t].pc = "start" /\ trig'[t].pc # "start" /\ ~othersInFlight(t))
              => ~Running(trig[t].workflowId)]_vars

(***************************************************************************)
(* Claims about the progress translator.                                   *)
(***************************************************************************)
\* C7: every WorkflowProgress the layer produces (the progress tool through
\* createWorkflowProgress, the tool's local variant and the GET handler)
\* has 0 <= completedSteps <= totalSteps.
C7_CompletedStepsWithinBounds ==
    \A r \in shown :
        r.code = 200 =>
            /\ 0 <= r.progress.completedSteps
            /\ r.progress.completedSteps <= r.progress.totalSteps

\* the GET handler has reported a completed document workflow at its last
\* step: completedSteps = totalSteps = 6, the upper bound
C7_Witness ==
    \E r \in shown :
        /\ r.code = 200 /\ r.by = "GET"
        /\ r.progress.status = "completed"
        /\ r.progress.totalSteps = 6
        /\ r.currentStepIndex = 5
        /\ r.progress.completedSteps = 6

\* C8: between two successive reports for one workflow that both say
\* running, completedSteps does not decrease.
C8_CompletedStepsMonotoneWhileRunning ==
    [][\A id \in DOMAIN seen :
          (seen[id].status = "running" /\ seen'[id].status = "running")
              => seen'[id].completedSteps >= seen[id].completedSteps]_vars

\* C9: with the engine reachable throughout, once a report for a workflow
\* said completed, failed or cancelled, every later report for that workflow
\* id says the same status.
C9_TerminalStatusIsFinal ==
    [][\A id \in DOMAIN seen :
          (faults' = 0 /\ seen[id].status \in {"completed", "failed", "cancelled"})
              => seen'[id].status = seen[id].status]_vars

\* the step-status table of the specification
stepStatusTable(i, current, status) ==
    IF status = "completed" THEN "completed"
    ELSE IF status = "failed" /\ i = current THEN "failed"
    ELSE IF i < current THEN "completed"
    ELSE IF i = current /\ status = "running" THEN "running"
    ELSE "pending"

\* C10: in every step list the layer returns (the progress tool in both
\* variants and the GET handler) the status of the step at index i is the
\* table's entry for (i, currentStepIndex, status).
C10_StepStatusesFollowTable ==
    \A r \in shown :
        r.code = 200 =>
            \A i \in DOMAIN r.steps :
                r.steps[i].status =
                    stepStatusTable(r.steps[i].stepIndex, r.currentStepIndex,
                                    r.progress.status)

\* the indices of the steps of a response that carry a status
stepsWith(r, status) == {i \in DOMAIN r.steps : r.steps[i].status = status}

\* C11 as stated: in every step list of a workflow that is not completed,
\* a running workflow has exactly one running step, the current one; every
\* step below the current one is completed; a failed workflow has its
\* current step failed and every following step pending.
C11_ExactlyOneRunningStep ==
    \A r \in shown :
        (r.code = 200 /\ r.progress.status # "completed") =>
            /\ r.progress.status = "running" =>
                  /\ Cardinality(stepsWith(r, "running")) = 1
                  /\ \A i \in stepsWith(r, "running") :
                        r.steps[i].stepIndex = r.currentStepIndex
            /\ \A i \in DOMAIN r.steps :
                  r.steps[i].stepIndex < r.currentStepIndex =>
                      r.steps[i].status = "completed"
            /\ r.progress.status = "failed" =>
                  \A i \in DOMAIN r.steps :
                      /\ r.steps[i].stepIndex = r.currentStepIndex =>
                            r.steps[i].status = "failed"
                      /\ r.steps[i].stepIndex > r.currentStepIndex =>
                            r.steps[i].status = "pending"

\* C11, amended: in every step list of a workflow that is not completed, at
\* most one step is running; the running steps of a running workflow are
\* exactly the catalog's step at currentStepIndex, so there is one when the
\* reported step is in the catalog and none when it is not (index -1), and
\* no step is running unless the workflow is; every step below the current
\* one is completed; in a failed workflow the step at currentStepIndex, if
\* any, is failed and every following step is pending.
C11_AtMostOneRunningStep ==
    \A r \in shown :
        (r.code = 200 /\ r.progress.status # "completed") =>
            /\ Cardinality(stepsWith(r, "running")) <= 1
            /\ stepsWith(r, "running") =
                  {i \in DOMAIN r.steps :
                      /\ r.progress.status = "running"
                      /\ r.steps[i].stepIndex = r.currentStepIndex}
            /\ \A i \in DOMAIN r.steps :
                  r.steps[i].stepIndex < r.currentStepIndex =>
                      r.steps[i].status = "completed"
            /\ r.progress.status = "failed" =>
                  \A i \in DOMAIN r.steps :
                      /\ r.steps[i].stepIndex = r.currentStepIndex =>
                            r.steps[i].status = "failed"
                      /\ r.steps[i].stepIndex > r.currentStepIndex =>
                            r.steps[i].status = "pending"

\* the shared helpers have listed the steps of a document workflow that
\* failed at chunking: three completed, one failed, two pending
C11_Witness ==
    \E r \in shown :
        /\ r.code = 200 /\ r.by = "tool"
        /\ r.progress.status = "failed"
        /\ r.currentStepIndex = 3
        /\ stepsWith(r, "completed") = {1, 2, 3}
        /\ stepsWith(r, "failed") = {4}
        /\ stepsWith(r, "pending") = {5, 6}

\* C12: whenever the engine's status maps to completed, the progress built
\* by the shared helpers and the body of GET /workflow/progress have
\* completedSteps = totalSteps, every step completed and estimatedDuration 0.
C12_CompletedMeansAllDone ==
    \A r \in shown :
        (r.code = 200 /\ r.by \in {"tool", "GET"} /\ r.progress.status = "completed") =>
            /\ r.progress.completedSteps = r.progress.totalSteps
            /\ \A i \in DOMAIN r.steps : r.steps[i].status = "completed"
            /\ r.progress.estimatedDuration = 0

\* C13: createWorkflowProgress reports completedSteps = totalSteps for a
\* completed workflow and max(currentStepIndex, 0) otherwise; for
\* document_processing-123 at {currentStep: chunking, status: running} it
\* reports 3, with steps 0..2 completed, step 3 running, steps 4..5 pending.
C13_CompletedStepsFormula ==
    \A r \in shown :
        (r.code = 200 /\ r.by = "tool") =>
            /\ r.progress.completedSteps =
                  IF r.progress.status = "completed" THEN r.progress.totalSteps
                  ELSE IF r.currentStepIndex > 0 THEN r.currentStepIndex ELSE 0
            /\ r.currentStepIndex \in -1 .. (r.progress.totalSteps - 1)
            /\ r.currentStepIndex >= 0 =>
                  r.steps[r.currentStepIndex + 1].stepName = r.progress.currentStep
            /\ r.currentStepIndex = -1 =>
                  \A i \in DOMAIN r.steps : r.steps[i].stepName # r.progress.currentStep
            /\ ( /\ r.workflowId = <<"document", "_processing", "-", "123">>
                 /\ r.progress.currentStep = "chunking"
                 /\ r.rawStatus = "running" ) =>
                  /\ r.progress.completedSteps = 3
                  /\ [i \in DOMAIN r.steps |-> r.steps[i].status] =
                        <<"completed", "completed", "completed", "running",
                          "pending", "pending">>

\* the shared helpers have translated {currentStep: chunking, status: running}
\* for document_processing-123
C13_Witness ==
    \E r \in shown :
        /\ r.code = 200 /\ r.by = "tool"
        /\ r.workflowId = <<"document", "_processing", "-", "123">>
        /\ r.progress.currentStep = "chunking"
        /\ r.rawStatus = "running"
        /\ r.progress.completedSteps = 3

\* the synonym table, in every letter case the inputs use
canonicalStatus(raw) ==
    CASE raw \in {"running", "RUNNING", "Running", "started", "STARTED", "Started"}
            -> "running"
      [] raw \in {"completed", "COMPLETED", "Completed", "finished", "FINISHED",
                  "Finished"} -> "completed"
      [] raw \in {"failed", "FAILED", "Failed", "error", "ERROR", "Error"} -> "failed"
      [] raw \in {"cancelled", "CANCELLED", "Cancelled", "canceled", "CANCELED",
                  "Canceled"} -> "cancelled"
      [] OTHER -> "running"

\* C14: the status of every progress returned is the canonical value of the
\* raw engine status, whatever its letter case; an absent status and every
\* string outside the synonym table give running.
C14_StatusMappingTotal ==
    \A r \in shown :
        r.code = 200 =>
            /\ r.progress.status \in {"running", "completed", "failed", "cancelled"}
            /\ r.progress.status = canonicalStatus(r.rawStatus)

\* the engine's upper-case COMPLETED has been mapped to completed by the
\* shared helpers
C14_Witness ==
    \E r \in shown :
        /\ r.code = 200 /\ r.by = "tool"
        /\ r.rawStatus = "COMPLETED"
        /\ r.progress.status = "completed"

(***************************************************************************)
(* Claims about the session orchestrator and the chat POST.                *)
(***************************************************************************)
\* another POST is inside startChatSessionWorkflow
othersEnsuring(r) ==
    \E q \in Requests \ {r} : post[q].pc \in {"connect", "describe", "start"}

\* C15: a startChatSessionWorkflow call running with no other such call in
\* flight issues a start only when the session execution is not running,
\* leaves a running execution as it is, and when it has started one that
\* execution is running with messageCount 0 and isActive true.
C15_ReuseOrStartFresh ==
    [][\A r \in Requests :
          ~othersEnsuring(r) =>
              /\ (post[r].pc = "start" /\ post'[r].pc # "start")
                    => ~Running(SessionId)
              /\ ( /\ post[r].pc \in {"describe", "start"}
                   /\ post'[r].pc # post[r].pc
                   /\ Running(SessionId) )
                    => executions'[SessionId] = executions[SessionId]
              /\ (post[r].pc = "start" /\ post'[r].chatWorkflowStarted)
                    => /\ executions'[SessionId].status = "RUNNING"
                       /\ executions'[SessionId].state = sessionSeed]_vars

\* C16: once terminateChatSession has returned true, the session execution
\* of the conversation stays terminated: it is never running again.
C16_TerminateIsFinal ==
    term.succeeded =>
        /\ Known(SessionId)
        /\ executions[SessionId].status = "TERMINATED"

\* C17: no POST ends in the error response of the outer catch because of a
\* session call; a POST that went past the rate limit has answered 200, or
\* 429 rate_limited, whatever session calls failed on its way.
C17_SessionFailuresSwallowed ==
    \A r \in Requests :
        /\ post[r].pc # "error"
        /\ post[r].pc \in {"stream", "done"} =>
              \E o \in outcomes :
                  /\ o.n = post[r].n
                  /\ o.status \in {200, 429}
                  /\ o.status = 429 <=> o.error = "rate_limited"

\* a POST has finished with its answer although two of its session calls
\* failed
C17_Witness ==
    \E r \in Requests :
        /\ post[r].pc = "done"
        /\ Cardinality(post[r].failures) >= 2
        /\ \E o \in outcomes : o.n = post[r].n /\ o.status = 200

\* C18: when the status query of a started session fails, the count compared
\* with the entitlement is the value of the guest-message-count cookie.
C18_QueryFailureFallsBackToCookie ==
    \A o \in outcomes :
        o.via = "queryFailed" => o.compared = o.cookie

(***************************************************************************)
(* Claims about the progress endpoint's responses.                         *)
(***************************************************************************)
\* an answered request of the given handler
answeredBy(p, via) ==
    /\ poll[p].via = via
    /\ poll[p].pc = "idle"
    /\ poll[p].code # 0

\* C19: an authenticated POST /workflow/progress with workflowId and stepName
\* whose history was not obtained (fetch failed, workflow unknown, or the
\* engine could not be reached) answers 200 with the degraded detail.
C19_InspectionNeverRaises ==
    \A p \in Pollers :
        ( /\ answeredBy(p, "POST")
          /\ poll[p].authenticated
          /\ poll[p].workflowId # NoStr /\ poll[p].stepName # ""
          /\ poll[p].lookup \in {"unknown", "raised"} )
            => /\ poll[p].code = 200
               /\ poll[p].detail = "degraded"

\* C20: a GET without a session answers 401 and made no lookup; with a
\* session, a lookup that ended unknown (describe failed) answers 404, a
\* lookup that found a status answers 200, and 500 is answered only when the
\* lookup raised; progress and steps are in the body exactly for a 200.
C20_GetOutcomes ==
    /\ \A p \in Pollers :
          answeredBy(p, "GET") =>
              /\ poll[p].code \in {200, 400, 401, 404, 500}
              /\ ~poll[p].authenticated
                    => poll[p].code = 401 /\ poll[p].lookup = "none"
              /\ poll[p].authenticated
                    => /\ poll[p].code # 401
                       /\ poll[p].code = 400 <=> poll[p].workflowId = NoStr
                       /\ poll[p].lookup = "unknown" => poll[p].code = 404
                       /\ poll[p].lookup = "found" => poll[p].code = 200
                       /\ poll[p].code = 500 <=> poll[p].lookup = "raised"
    /\ \A r \in shown :
          r.by = "GET" =>
              IF r.code = 200
                 THEN r.progress # NoProgress /\ r.steps # << >>
                 ELSE r.progress = NoProgress /\ r.steps = << >>

\* a GET answered 404 for an existing execution because describe failed
C20_Witness ==
    \E p \in Pollers :
        /\ answeredBy(p, "GET")
        /\ poll[p].authenticated
        /\ poll[p].lookup = "unknown"
        /\ poll[p].code = 404
        /\ Known(poll[p].workflowId)
        /\ \E r \in shown : r.by = "GET" /\ r.code = 404 /\ r.steps = << >>

(***************************************************************************)
(* Claims about the polling component.                                     *)
(***************************************************************************)
\* the component issues a poll request in this step
pollIssued == \E s \in Slots : net[s].stage = "free" /\ net'[s].stage = "sent"

\* C21: a poll request is issued only by a component with polling enabled,
\* mounted with a running progress, whose progress.status is running, and
\* never after a poll response has carried another status than running.
C21_PollsOnlyWhileRunning ==
    [][pollIssued =>
          /\ view.enablePolling
          /\ view.initial = "running"
          /\ view.status = "running"
          /\ ~view.stopped]_vars

\* C28: if the execution is for good not running any more (closed, or unknown
\* to the engine), the component's interval is eventually cleared for good.
C28_PollingEventuallyStops ==
    <>[](~Running(DocId)) => <>[](~view.interval)

(***************************************************************************)
(* Claims about the dispatcher, the extractor and the trigger tool.        *)
(***************************************************************************)
\* the inference rule as the statement gives it
typeByRule(event) ==
    IF event.workflowType # NoStr THEN event.workflowType
    ELSE IF \E word \in {"incident", "alert", "error"} :
               \E i \in DOMAIN event.eventType : event.eventType[i] = word
       THEN <<"incident">>
    ELSE IF \/ \E word \in {"ObjectCreated", "BlobCreated", "document"} :
               \E i \in DOMAIN event.eventType : event.eventType[i] = word
            \/ event.source \in {<<"s3">>, <<"azure-blob">>}
       THEN <<"document", "_processing">>
    ELSE <<"incident">>

\* C22: determineWorkflowType gives every event the type of the rule and
\* never raises.
C22_TypeInferenceIsTotal ==
    \A d \in Dispatchers :
        /\ disp[d].error # "type-error"
        /\ disp[d].workflowType # NoStr => disp[d].workflowType = typeByRule(disp[d].event)

\* a dispatcher call for an event whose resolved type has no case in the switch
unsupportedDispatch(d) ==
    /\ disp[d].pc \in {"start", "returned", "raised"}
    /\ typeByRule(disp[d].event) \notin {<<"incident">>, <<"document", "_processing">>}

\* C23: a dispatch of an event of unsupported type ends raised without having
\* issued an engine start; its error is the Unsupported workflow type error
\* (the connection error if no client could be obtained); and the tool
\* reports every error of its dispatch as success false, workflowTriggered
\* false, carrying the error.
C23_UnsupportedTypeRaises ==
    /\ \A d \in Dispatchers :
          unsupportedDispatch(d) =>
              /\ disp[d].pc = "raised"
              /\ disp[d].starts = 0
              /\ disp[d].error \in {"unsupported", "connectivity"}
              /\ disp[d].workflowType # NoStr => disp[d].error = "unsupported"
              /\ disp[d].workflowId \notin DOMAIN executions
    /\ (tool.pc = "done" /\ tool.result.error # "none") =>
          /\ ~tool.result.success
          /\ ~tool.result.workflowTriggered
          /\ tool.result.error = disp[ToolDispatcher].error

\* the explicit type data_processing was refused with the Unsupported error
C23_Witness ==
    \E d \in Dispatchers :
        /\ unsupportedDispatch(d)
        /\ disp[d].event.workflowType = <<"data", "_processing">>
        /\ disp[d].error = "unsupported"

\* C24: when generateObject fails or returns malformed output, the extractor
\* returns isWorkflowEvent false with a non-empty reasoning and raises nothing.
C24_ExtractorNeverRaises ==
    tool.outcome \in {"error", "malformed"} =>
        /\ ~tool.extractorRaised
        /\ ~tool.extracted.isWorkflowEvent
        /\ tool.extracted.reasoning # ""

\* an extraction whose output was malformed has ended the tool call
C24_Witness ==
    /\ tool.outcome = "malformed"
    /\ tool.pc = "done"
    /\ ~tool.result.workflowTriggered

\* C25: a tool call that has ended has a result: for a message that is not a
\* workflow event workflowTriggered is false and no engine start was issued;
\* workflowTriggered is true only with workflowId and runId, after exactly one
\* engine start of that call, which the engine accepted.
C25_TriggeredOnlyAfterOneStart ==
    tool.pc = "done" =>
        /\ ~tool.extracted.isWorkflowEvent
              => ~tool.result.workflowTriggered /\ tool.starts = 0
        /\ tool.result.workflowTriggered
              => /\ tool.extracted.isWorkflowEvent
                 /\ tool.starts = 1
                 /\ disp[ToolDispatcher].pc = "returned"
                 /\ tool.result.workflowId # NoStr
                 /\ tool.result.runId # NoStr
                 /\ tool.result.workflowId \in DOMAIN executions
        /\ tool.result.workflowTriggered <=> tool.result.success

\* "Hello, how are you?" ended with workflowTriggered false
C25_Witness ==
    /\ tool.pc = "done"
    /\ tool.userMessage = "Hello, how are you?"
    /\ tool.outcome = "object"
    /\ ~tool.extracted.isWorkflowEvent
    /\ ~tool.result.workflowTriggered

\* C26: a start the engine accepts for an incident event is IncidentWorkflow
\* on incident_workflow-queue, for a document_processing event
\* DocumentProcessingWorkflow on document_processing-queue.
C26_DedicatedTaskQueue ==
    [][\A d \in Dispatchers :
          (disp[d].pc = "start" /\ disp'[d].pc = "returned") =>
              LET started == executions'[disp[d].workflowId]
                  type == typeByRule(disp[d].event)
              IN /\ type = <<"incident">> =>
                       /\ started.name = "IncidentWorkflow"
                       /\ started.queue = "incident_workflow-queue"
                 /\ type = <<"document", "_processing">> =>
                       /\ started.name = "DocumentProcessingWorkflow"
                       /\ started.queue = "document_processing-queue"]_vars

\* the outage message has started IncidentWorkflow on the incident queue
C26_Witness ==
    /\ tool.pc = "done"
    /\ tool.userMessage = "We have a critical system outage"
    /\ tool.extracted.priority = "critical"
    /\ tool.result.workflowTriggered
    /\ tool.result.workflowId \in DOMAIN executions
    /\ executions[tool.result.workflowId].name = "IncidentWorkflow"
    /\ executions[tool.result.workflowId].queue = "incident_workflow-queue"

(***************************************************************************)
(* Claims about the step inspector.                                        *)
(***************************************************************************)
\* the events the statement selects: scheduled with a type name containing
\* the step name, or activity completions
selectedByRule(event, stepName) ==
    \/ /\ event.eventType = "ActivityTaskScheduled"
       /\ \E i \in DOMAIN event.scheduled.name : event.scheduled.name[i] = stepName
    \/ event.eventType = "ActivityTaskCompleted"

\* C27: details are the selected events of the history in history order, each
\* with its type, its time and the first non-empty of completion result,
\* failure detail and schedule parameters; events is their number.
C27_InspectorSelectsAndProjects ==
    LET history == inspected.history
        stepName == inspected.stepDetails.stepName
        details == inspected.stepDetails.details
        chosen == {i \in DOMAIN history : selectedByRule(history[i], stepName)}
    IN /\ inspected.stepDetails.events = Len(details)
       /\ Len(details) = Cardinality(chosen)
       /\ \A i \in chosen :
             LET k == Cardinality({j \in chosen : j <= i}) IN
             /\ details[k].eventType = history[i].eventType
             /\ details[k].timestamp = history[i].eventTime
             /\ details[k].details =
                   IF history[i].completed.result # ""
                      THEN [of |-> "result", value |-> history[i].completed.result]
                   ELSE IF history[i].failed.failure # ""
                      THEN [of |-> "failure", value |-> history[i].failed.failure]
                   ELSE IF history[i].eventType = "ActivityTaskScheduled"
                      THEN [of |-> "schedule", value |-> history[i].scheduled.input]
                   ELSE [of |-> "undefined", value |-> ""]

\* a history of three events, of which the scheduled chunking activity and a
\* later completion were selected and one event was left out
C27_Witness ==
    /\ Len(inspected.history) = 3
    /\ inspected.stepDetails.stepName = "chunking"
    /\ inspected.stepDetails.events = 2
    /\ inspected.stepDetails.details[1].details.of = "schedule"
    /\ inspected.stepDetails.details[2].details.of = "result"

(***************************************************************************)
(* Claims about the rate limit and the session.                            *)
(***************************************************************************)
\* the request has been answered 429 rate_limited
rejected(r) ==
    /\ post[r].pc = "done"
    /\ \E o \in outcomes : o.n = post[r].n /\ o.status = 429

\* C29: the message of a request rejected as rate_limited has not been
\* forwarded to the session execution as a receiveMessage signal.
C29_RejectedMessageNotForwarded ==
    \A r \in Requests : rejected(r) => ~post[r].forwarded

\* C30: while the session's first run is alive, once a request of the guest
\* has been rejected as rate_limited every later request is rejected too,
\* whichever counter supplied its count.
C30_RejectedStaysRejected ==
    firstRunsOnly =>
        \A o1, o2 \in outcomes :
            (o1.status = 429 /\ o1.n < o2.n) => o2.status = 429

(***************************************************************************)
(* Claims that relate the dispatcher and the progress translator.          *)
(***************************************************************************)
\* the name of a dispatch type, and the status query of a type
typeName(type) ==
    IF type = <<"incident">> THEN "incident"
    ELSE IF type = <<"document", "_processing">> THEN "document_processing"
    ELSE "data_processing"

queryOfType(name) ==
    IF name = "incident" THEN "getIncidentStatus" ELSE "getProcessingStatus"

\* C31: for a workflow that dispatch has started with type T under the
\* derived id T-chatId, the translator's type of the id is T and the status
\* query chosen for the id is the query of T.
C31_TypeRoundTrip ==
    \A d \in Dispatchers :
        ( /\ disp[d].pc = "returned"
          /\ disp[d].arg = NoStr
          /\ disp[d].event.chatId # NoStr )
            => /\ determineWorkflowTypeOfId(disp[d].workflowId)
                     = typeName(disp[d].workflowType)
               /\ statusQuery(disp[d].workflowId)
                     = queryOfType(typeName(disp[d].workflowType))

\* the payload a response was computed from, as far as the translator reads it
payloadOf(r) ==
    [status |-> r.rawStatus, currentStep |-> r.progress.currentStep, step |-> Undefined]

\* C32: the progress and the steps of a GET response are those the shared
\* utility (createWorkflowProgress, createWorkflowSteps) computes for the
\* same workflowId and the same status payload (the records carry no times).
C32_GetEqualsUtility ==
    \A r \in shown :
        (r.by = "GET" /\ r.code = 200) =>
            /\ r.progress = createWorkflowProgress(r.workflowId, payloadOf(r))
            /\ r.steps = createWorkflowSteps(r.workflowId,
                                             determineWorkflowTypeOfId(r.workflowId),
                                             currentStepIndex(r.workflowId, payloadOf(r)),
                                             mapTemporalStatus(r.rawStatus))

(***************************************************************************)
(* Claims about concurrent session starts and the signals of a chat turn.  *)
(***************************************************************************)
\* C33: with the engine reachable and the session execution in its first run
\* at most, concurrent startChatSessionWorkflow calls of one conversation
\* never raise from the start: each returns a handle (chatWorkflowStarted),
\* on one running session.
C33_ConcurrentSessionStartsReturn ==
    (faults = 0 /\ (Known(SessionId) => executions[SessionId].runs <= 1)) =>
        \A r \in Requests :
            /\ "start" \notin post[r].failures
            /\ post[r].pc \notin {"idle", "connect", "describe", "start"}
                  => post[r].chatWorkflowStarted

C35_FailedConnectNotCached ==
    [][ /\ \A k \in Callers :
              /\ (conn[k].pc = "connecting" /\ conn'[k].pc = "raised")
                    => /\ temporalClient' = temporalClient
                       /\ handed' = handed
                       /\ conn'[k].ret = Null
              /\ (conn[k].pc = "idle" /\ conn'[k].pc # "idle" /\ ~clientCached)
                    => conn'[k].pc = "connecting" /\ conn'[k].attempted
        /\ connects' = 0 => temporalClient' = Null
        /\ temporalClient' # Null => temporalClient' \in 1..connects' ]_vars

\* a call has raised from a failed connect, the cache stayed empty, and
\* another call is attempting a connection
C35_Witness ==
    \E k \in Callers, j \in Callers :
        /\ conn[k].pc = "raised"
        /\ temporalClient = Null
        /\ conn[j].pc = "connecting"
        /\ calls >= 2

\* the base time the statement gives for a type
typeBaseTime(workflowType) ==
    IF workflowType = "document_processing" THEN 120 ELSE 30

\* C36: in every progress value, estimatedDuration is
\* (totalSteps - completedSteps) * (typeBaseTime / totalSteps), with 120 for
\* document_processing and 30 for semantic_search; it lies in
\* 0..typeBaseTime, is 0 exactly when completedSteps = totalSteps, and is no
\* larger than the estimate for any smaller completedSteps.
C36_EstimatedDuration ==
    \A r \in shown :
        r.code = 200 =>
            LET p == r.progress
                base == typeBaseTime(p.workflowType)
            IN /\ p.workflowType \in {"document_processing", "semantic_search"}
               /\ p.totalSteps > 0
               /\ p.estimatedDuration * p.totalSteps
                     = (p.totalSteps - p.completedSteps) * base
               /\ 0 <= p.estimatedDuration /\ p.estimatedDuration <= base
               /\ p.estimatedDuration = 0 <=> p.completedSteps = p.totalSteps
               /\ \A c \in 0..p.completedSteps :
                     estimateRemainingTime(p.workflowType, c, p.totalSteps)
                        >= p.estimatedDuration

\* a progress value part of the way: some steps completed, some remaining
C36_Witness ==
    \E r \in shown :
        /\ r.code = 200
        /\ r.progress.completedSteps > 0
        /\ r.progress.completedSteps < r.progress.totalSteps
        /\ r.progress.estimatedDuration > 0

\* the statuses after which a workflow does not run again
terminalStatuses == {"completed", "failed", "cancelled"}

=============================================================================
